---------------------------- MODULE Spec2Model ----------------------------
(***************************************************************************)
(* gitx-tauri: commit graph layout (GraphBuilder), its renderer            *)
(* (CommitHistory), the hunk-level patch engine (HunkPatcher) and the      *)
(* presentation layer that drives it (DiffView, StageView).                *)
(*                                                                         *)
(* GraphBuilder and HunkPatcher live in the Rust backend of the            *)
(* repository; they are modelled from the design document (spec.md 4.1,    *)
(* 4.2).  The renderer and the presentation layer are modelled from the    *)
(* TypeScript sources.                                                     *)
(***************************************************************************)
EXTENDS Integers, Sequences, FiniteSets, TLC

VARIABLES
    total,        \* number of commits the history walk delivers
    commits,      \* RawCommit sequence delivered so far (children before parents)
    activeLanes,  \* ordered sequence of [id, lane, color]: scan state of buildGraph
    nextColor,    \* monotonically increasing colour counter
    graph,        \* buildGraph output so far: [id, parents, lane, colorIndex, lines]
    owned,        \* history: per row, the lanes owned before and after the row
    head,         \* the file as committed
    index,        \* the file in the index
    wt,           \* the file in the working tree
    unstagedFiles,  \* StageView state
    stagedFiles,
    selectedFile,
    selectedStaged,
    diff,
    inflight,     \* invoke() calls that have not returned yet
    dialog,       \* the error dialog shown by message(), "none" when there is none
    externals,    \* number of changes made behind the application's back
    last,         \* history: the hunk command the backend ran in the last step
    commitLists,    \* CommitHistory state: the lists All, Local and Current
    selectedCommit,
    loading,
    branchFilter,
    currentBranch,  \* CommitHistory prop
    loads,          \* loadAllCommits calls that are waiting for the backend
    reported,       \* the commit last passed to onCommitSelect
    issued,         \* number of loadAllCommits calls made so far
    headReply,      \* history: what get_branch_head answered last
    recentRepos,    \* Launcher state: the recent repositories, by path
    stored,         \* localStorage item "gitx-tauri-recent-repos"
    pending,        \* Launcher functions that are waiting at an await
    lastAdded,      \* history: the path last passed to addToRecentRepos
    statusMessage,  \* RepoView state
    timers,         \* setTimeout callbacks of showStatus that have not run yet
    now,            \* the clock, in milliseconds
    lastShown,      \* history: the last showStatus call
    fetches         \* handleFetch / handlePull calls waiting for the backend

gvars == <<total, commits, activeLanes, nextColor, graph, owned>>

rvars == <<head, index, wt>>

svars == <<unstagedFiles, stagedFiles, selectedFile, selectedStaged, diff,
           inflight, dialog, externals, last>>

hvars == <<commitLists, selectedCommit, loading, branchFilter, currentBranch,
           loads, reported, issued, headReply>>

avars == <<recentRepos, stored, pending, lastAdded, statusMessage, timers, now,
           lastShown, fetches>>

vars == <<avars, gvars, rvars, svars, hvars, avars>>

-----------------------------------------------------------------------------
(* Bounds *)

MaxCommits == 4   \* commits per history walk
MaxParents == 2   \* parents per commit
MaxEdges   == 5   \* parent references per history walk
PairRun    == 3   \* two-commit branches at the start of a long history walk
WalkLen    == 2   \* commits of the longest plain history get_commits returns
MaxLoads   == 3   \* loadAllCommits calls of one CommitHistory
NewPaths   == 1   \* paths opened or cloned that were never in the recent list
TickMs     == 1000 \* milliseconds the clock advances in one step
MaxTimeMs  == 8000 \* the clock stops here
MaxExternals == 1 \* changes made behind the application's back
MaxBody      == 2 \* body lines and header counts of a hunk handed to extractHunk

-----------------------------------------------------------------------------
(* Generic helpers *)

Range(s) == {s[i] : i \in DOMAIN s}

MinOf(S) == CHOOSE m \in S : \A x \in S : m <= x

SelectIdx(s, keep(_)) ==
    LET F[i \in 0..Len(s)] ==
            IF i = 0 THEN <<>>
            ELSE IF keep(s[i]) THEN Append(F[i - 1], s[i]) ELSE F[i - 1]
    IN F[Len(s)]

\* Sequences of pairwise distinct elements of S, of length at most k.
DistinctSeqs(S, k) ==
    {s \in UNION {[1..m -> S] : m \in 0..k} :
        \A a, b \in DOMAIN s : a # b => s[a] # s[b]}

-----------------------------------------------------------------------------
(* GraphBuilder (spec.md 4.1) *)

\* The id of a parent that the (truncated) history walk never delivers.
MissingId == 0 - 1

LanesOf(active) == {e.lane : e \in Range(active)}

\* Step 2 / step 4: lowest lane index no active lane entry uses.
LowestUnusedByCount(active) == Len(active)
LowestUnused(active) ==
    MinOf({l \in 0..Len(active) : l \notin LanesOf(active)})

\* Step 1: the active lane entries that expect this commit, in lane-list order.
Converging(active, id) == SelectIdx(active, LAMBDA e : e.id = id)

\* Step 1: among the converging entries the one with the lowest lane index.
Primary(conv) ==
    CHOOSE e \in Range(conv) : \A o \in Range(conv) : e.lane <= o.lane

\* Step 3: one upper-half GraphLine per lane that just terminated into the commit.
UpperLinesOthersOnly(conv, lane) ==
    LET others == SelectIdx(conv, LAMBDA e : e.lane # lane)
    IN [i \in 1..Len(others) |->
            [upper |-> TRUE, from |-> others[i].lane, to |-> lane,
             color |-> others[i].color]]
UpperLines(conv, lane) ==
    [i \in 1..Len(conv) |->
        [upper |-> TRUE, from |-> conv[i].lane, to |-> lane, color |-> conv[i].color]]

\* Step 4, first parent: the commit's lane continues, same lane, same colour.
\* The entry the commit inherited is updated in place; a new tip appends one.
ContinueLaneAllocates(active, id, lane, color, parent) ==
    Append(SelectIdx(active, LAMBDA e : e.id # id),
           [id |-> parent, lane |-> LowestUnused(active), color |-> color])
ContinueLane(active, id, lane, color, parent) ==
    LET prim == [id |-> id, lane |-> lane, color |-> color]
        cont == [id |-> parent, lane |-> lane, color |-> color]
        kept == SelectIdx(active, LAMBDA e : e.id # id \/ e = prim)
    IN IF \E i \in DOMAIN kept : kept[i] = prim
       THEN [i \in DOMAIN kept |-> IF kept[i] = prim THEN cont ELSE kept[i]]
       ELSE Append(kept, cont)

\* Step 5 (and step 1): every lane that terminated into the commit is retired.
Retire(active, id) == SelectIdx(active, LAMBDA e : e.id # id)

\* Step 4, second and later parents: a new entry at a newly allocated lane and
\* colour, with a lower-half GraphLine from the commit's lane to the new lane.
\* st = [active, color, lines]
SpawnLane(st, lane, parent) ==
    LET new == LowestUnused(st.active)
    IN [active |-> Append(st.active, [id |-> parent, lane |-> new, color |-> st.color]),
        color  |-> st.color + 1,
        lines  |-> Append(st.lines, [upper |-> FALSE, from |-> lane, to |-> new,
                                     color |-> st.color])]

\* One iteration of the forward pass: the row of `c` and the new scan state.
ProcessCommit(c, active, counter) ==
    LET conv    == Converging(active, c.id)
        fresh   == Len(conv) = 0
        lane    == IF fresh THEN LowestUnused(active) ELSE Primary(conv).lane
        color   == IF fresh THEN counter ELSE Primary(conv).color
        counter1 == IF fresh THEN counter + 1 ELSE counter
        ups     == UpperLines(conv, lane)
        active1 == IF Len(c.parents) = 0
                   THEN Retire(active, c.id)
                   ELSE ContinueLane(active, c.id, lane, color, c.parents[1])
        Spawn[k \in 1..Len(c.parents)] ==
            IF k = 1
            THEN [active |-> active1, color |-> counter1, lines |-> ups]
            ELSE SpawnLane(Spawn[k - 1], lane, c.parents[k])
        fin     == IF Len(c.parents) = 0
                   THEN [active |-> active1, color |-> counter1, lines |-> ups]
                   ELSE Spawn[Len(c.parents)]
    IN [row    |-> [id |-> c.id, parents |-> c.parents, lane |-> lane,
                    colorIndex |-> color, lines |-> fin.lines],
        active |-> fin.active,
        color  |-> fin.color]

\* The stage view and the repository while only the graph is built.
NoCall ==
    [cmd |-> "none", result |-> "none", fullDiff |-> <<>>, header |-> <<>>,
     hunkLines |-> <<>>, current |-> <<>>, patch |-> <<>>,
     head |-> <<>>, index |-> <<>>, wt |-> <<>>, row |-> 0]

\* CommitHistory before it is mounted: selectedCommit = null, no branch.
NoCommit ==
    [id |-> 0, parents |-> <<>>, lane |-> 0, colorIndex |-> 0, lines |-> <<>>]

NoBranch == "none"

NoLists == [All |-> <<>>, Local |-> <<>>, Current |-> <<>>]

\* No get_branch_head has answered yet.
NoReply == [ok |-> FALSE, sha |-> MissingId]

HistoryIdle ==
    /\ commitLists = NoLists
    /\ selectedCommit = NoCommit
    /\ loading = FALSE
    /\ branchFilter = "All"
    /\ currentBranch = NoBranch
    /\ loads = {}
    /\ reported = NoCommit
    /\ issued = 0
    /\ headReply = NoReply

\* Launcher and RepoView before anything is opened or shown.
NoPath == 0

NoStore == <<NoPath>>   \* localStorage.getItem(...) = null

NoStatus == [msg |-> "", at |-> 0, duration |-> 0]

LauncherIdle ==
    /\ recentRepos = <<>> /\ stored = NoStore /\ pending = {} /\ lastAdded = NoPath

StatusIdle ==
    /\ statusMessage = "" /\ timers = {} /\ now = 0 /\ lastShown = NoStatus
    /\ fetches = {}

AppIdle == LauncherIdle /\ StatusIdle

StageIdle ==
    /\ head = <<>> /\ index = <<>> /\ wt = <<>>
    /\ unstagedFiles = <<>> /\ stagedFiles = <<>>
    /\ selectedFile = "none" /\ selectedStaged = FALSE
    /\ diff = <<>>
    /\ inflight = {}
    /\ dialog = "none"
    /\ externals = 0
    /\ last = NoCall

\* Parents a commit at position i of a walk of n commits may name: later
\* commits of the walk, or a commit the walk was truncated before.
ParentPool(i, n) == ((i + 1)..n) \cup {MissingId}

\* Number of parent references in the commits delivered so far.
EdgeCount(cs) ==
    LET F[i \in 0..Len(cs)] ==
            IF i = 0 THEN 0 ELSE F[i - 1] + Len(cs[i].parents)
    IN F[Len(cs)]

ParentBudget(cs) ==
    IF MaxEdges - EdgeCount(cs) < MaxParents
    THEN MaxEdges - EdgeCount(cs) ELSE MaxParents

InitGraph ==
    /\ StageIdle
    /\ HistoryIdle
    /\ AppIdle
    /\ total \in 1..MaxCommits
    /\ commits = <<>>
    /\ activeLanes = <<>>
    /\ nextColor = 0
    /\ graph = <<>>
    /\ owned = <<>>

\* buildGraph consumes the next commit of the history walk, with parents ps.
Scan(ps) ==
    LET c == [id |-> Len(commits) + 1, parents |-> ps]
        r == ProcessCommit(c, activeLanes, nextColor)
    IN /\ commits' = Append(commits, c)
       /\ graph' = Append(graph, r.row)
       /\ activeLanes' = r.active
       /\ nextColor' = r.color
       /\ owned' = Append(owned, [before |-> LanesOf(activeLanes) \cup {r.row.lane},
                                  after  |-> LanesOf(r.active) \cup {r.row.lane}])

BuildGraphStep ==
    /\ Len(commits) < total
    /\ \E ps \in DistinctSeqs(ParentPool(Len(commits) + 1, total),
                                ParentBudget(commits)) : Scan(ps)
    /\ UNCHANGED <<total, rvars, svars, hvars, avars>>

NextGraph == BuildGraphStep

SpecGraph == InitGraph /\ [][NextGraph]_vars

-----------------------------------------------------------------------------
(* CommitHistory graph cell renderer (src/unnamed/part_001:263-288).        *)
(* x coordinates are in half pixels (lane * 15 + 7.5 px), y in pixels.      *)

LanePitch == 15
RowMid    == 13
RowHeight == 26

LaneX(lane) == lane * (2 * LanePitch) + LanePitch

LineX1(line) == LaneX(line.from)
LineY1(line) == IF line.upper THEN 0 ELSE RowMid
LineX2AtFrom(line) == LaneX(line.from)
LineX2(line) == LaneX(line.to)
LineY2(line) == IF line.upper THEN RowMid ELSE RowHeight

\* The <line> elements of one row, in drawing order.
Segments(row) ==
    [i \in DOMAIN row.lines |->
        [x1 |-> LineX1(row.lines[i]), y1 |-> LineY1(row.lines[i]),
         x2 |-> LineX2(row.lines[i]), y2 |-> LineY2(row.lines[i])]]

\* Line 276: stroke = hsl((line.color * 60) % 360, 70%, 60%)
HueStep   == 60
HueCircle == 360
HueUnwrapped(color) == color * HueStep
Hue(color) == (color * HueStep) % HueCircle

CircleCx(row) == LaneX(row.lane)
CircleCy == RowMid

-----------------------------------------------------------------------------
(* Reading the output of buildGraph *)

Rows == DOMAIN graph

Uppers(row) == SelectIdx(row.lines, LAMBDA l : l.upper)
Lowers(row) == SelectIdx(row.lines, LAMBDA l : ~l.upper)

\* The child->parent edges <<child row, parent position>> of the delivered
\* commits that lead to the commit of row j.
EdgesInto(j) ==
    {e \in Rows \X (1..MaxParents) :
        e[2] \in DOMAIN graph[e[1]].parents /\ graph[e[1]].parents[e[2]] = j}

AllEdges ==
    {e \in Rows \X (1..MaxParents) : e[2] \in DOMAIN graph[e[1]].parents}

\* The lane an edge travels in: the child's own lane for its first parent,
\* the lane its lower-half GraphLine leads to for a later parent.
HasEdgeLane(e) == e[2] = 1 \/ e[2] - 1 \in DOMAIN Lowers(graph[e[1]])
EdgeLane(e) ==
    IF e[2] = 1 THEN graph[e[1]].lane ELSE Lowers(graph[e[1]])[e[2] - 1].to
EdgeColor(e) ==
    IF e[2] = 1 THEN graph[e[1]].colorIndex ELSE Lowers(graph[e[1]])[e[2] - 1].color

Count(s, test(_)) == Cardinality({i \in DOMAIN s : test(s[i])})

-----------------------------------------------------------------------------
(* C1: every child->parent edge whose parent was delivered is drawn by       *)
(* exactly one connector that reaches the parent's row: one segment of the   *)
(* parent's row runs from the top of the edge's lane to the parent's circle  *)
(* (for a second or later parent, after exactly one lower-half segment of    *)
(* the child's row from the child's circle to the bottom of that lane), the  *)
(* parent's row has no further upper-half segment, and every GraphLine's     *)
(* fromLane and toLane is owned at its row by the commit or an active lane.  *)

EdgeDrawnOnce(e, j) ==
    /\ HasEdgeLane(e)
    /\ Count(Segments(graph[j]),
             LAMBDA s : /\ s.x1 = LaneX(EdgeLane(e)) /\ s.y1 = 0
                        /\ s.x2 = CircleCx(graph[j]) /\ s.y2 = CircleCy) = 1
    /\ e[2] > 1 =>
         Count(Segments(graph[e[1]]),
               LAMBDA s : /\ s.x1 = CircleCx(graph[e[1]]) /\ s.y1 = CircleCy
                          /\ s.x2 = LaneX(EdgeLane(e)) /\ s.y2 = RowHeight) = 1

LinesOwned(j) ==
    \A i \in DOMAIN graph[j].lines :
        LET l == graph[j].lines[i]
        IN IF l.upper
           THEN l.from \in owned[j].before /\ l.to \in owned[j].before
           ELSE l.from \in owned[j].after /\ l.to \in owned[j].after

C1_EveryEdgeOneConnector ==
    \A j \in Rows :
        /\ \A e \in EdgesInto(j) : EdgeDrawnOnce(e, j)
        /\ Len(Uppers(graph[j])) = Cardinality(EdgesInto(j))
        /\ LinesOwned(j)

\* A merge whose second parent was delivered, converging with another child.
C1_Witness ==
    \E j \in Rows : \E e, f \in EdgesInto(j) :
        /\ e[2] > 1 /\ f[1] # e[1]
        /\ EdgeLane(e) # graph[j].lane
        /\ C1_EveryEdgeOneConnector

-----------------------------------------------------------------------------
(* C2 (as claimed): for every merge commit, the first parent is given the   *)
(* merge commit's own lane and colour when it is processed, and every       *)
(* additional parent gets a new lane different from the merge's lane.       *)

Merges == {m \in Rows : Len(graph[m].parents) >= 2}

AdditionalParentsOnNewLanes(m) ==
    /\ Len(Lowers(graph[m])) = Len(graph[m].parents) - 1
    /\ \A k \in DOMAIN Lowers(graph[m]) :
         /\ Lowers(graph[m])[k].from = graph[m].lane
         /\ Lowers(graph[m])[k].to # graph[m].lane
         /\ \A k2 \in DOMAIN Lowers(graph[m]) :
              k2 # k => Lowers(graph[m])[k2].to # Lowers(graph[m])[k].to

C2_FirstParentKeepsMergeLane ==
    \A m \in Merges :
        /\ AdditionalParentsOnNewLanes(m)
        /\ graph[m].parents[1] \in Rows =>
             /\ graph[graph[m].parents[1]].lane = graph[m].lane
             /\ graph[graph[m].parents[1]].colorIndex = graph[m].colorIndex

(* C2 (amended): the first parent of a merge commit is given the lowest     *)
(* lane index among the lanes of all edges leading to it, with that lane's  *)
(* colour; this is the merge commit's own lane and colour exactly when no   *)
(* edge from another child travels in a lower lane.  Every additional       *)
(* parent gets a new lane different from the merge's lane.                  *)

C2_FirstParentLowestLane ==
    \A m \in Merges :
        /\ AdditionalParentsOnNewLanes(m)
        /\ graph[m].parents[1] \in Rows =>
             LET p == graph[m].parents[1]
                 lower == {e \in EdgesInto(p) : EdgeLane(e) < graph[m].lane}
             IN /\ \A e \in EdgesInto(p) : graph[p].lane <= EdgeLane(e)
                /\ \E e \in EdgesInto(p) :
                      /\ graph[p].lane = EdgeLane(e)
                      /\ graph[p].colorIndex = EdgeColor(e)
                /\ lower = {} =>
                      /\ graph[p].lane = graph[m].lane
                      /\ graph[p].colorIndex = graph[m].colorIndex
                /\ lower # {} => graph[p].lane # graph[m].lane

\* A merge whose first parent was delivered while a lower lane expected it too,
\* and one whose first parent was expected by no lower lane.
C2_Witness ==
    /\ \E m \in Merges :
         /\ graph[m].parents[1] \in Rows
         /\ graph[graph[m].parents[1]].lane < graph[m].lane
    /\ \E m \in Merges :
         /\ graph[m].parents[1] \in Rows
         /\ graph[m].lane > 0
         /\ graph[graph[m].parents[1]].lane = graph[m].lane

-----------------------------------------------------------------------------
(* C3: when two or more active lanes expect the same commit, the commit     *)
(* takes the lowest lane index among them and its row has exactly one       *)
(* upper-half GraphLine from each other converging lane into its lane; two  *)
(* children of one commit are on distinct lanes and the parent's row shows  *)
(* one upper-half connector per child merging into the parent's lane.       *)

ConvergingLanes(j) == {EdgeLane(e) : e \in EdgesInto(j)}

C3_ConvergeOnLowestLane ==
    \A j \in Rows :
        Cardinality(EdgesInto(j)) >= 2 =>
            /\ Cardinality(ConvergingLanes(j)) = Cardinality(EdgesInto(j))
            /\ graph[j].lane = MinOf(ConvergingLanes(j))
            /\ \A l \in ConvergingLanes(j) \ {graph[j].lane} :
                 Count(graph[j].lines,
                       LAMBDA g : g.upper /\ g.from = l /\ g.to = graph[j].lane) = 1
            /\ \A g \in Range(Uppers(graph[j])) : g.to = graph[j].lane
            /\ \A b, c \in Rows :
                 (b # c /\ graph[b].parents = <<j>> /\ graph[c].parents = <<j>>)
                     => graph[b].lane # graph[c].lane
            /\ (\A e \in EdgesInto(j) : e[2] = 1 /\ Len(graph[e[1]].parents) = 1)
                 => Len(Uppers(graph[j])) = Cardinality(EdgesInto(j))

\* A<-B, A<-C: two single-parent tips converge on the third commit.
C3_Witness ==
    /\ Len(graph) >= 3
    /\ graph[1].parents = <<3>> /\ graph[2].parents = <<3>>
    /\ graph[1].lane = 0 /\ graph[2].lane = 1 /\ graph[3].lane = 0
    /\ Len(Uppers(graph[3])) = 2

-----------------------------------------------------------------------------
(* C4: in a linear history delivered tip first (every commit's only parent  *)
(* is the next commit; the last commit is a root or names a parent the walk *)
(* was truncated before) every commit is on lane 0 and no GraphLine has a   *)
(* fromLane different from its toLane.                                      *)

IsLinear ==
    \A i \in DOMAIN commits :
        IF i < Len(commits)
        THEN commits[i].parents = <<i + 1>>
        ELSE commits[i].parents \in {<<>>, <<i + 1>>, <<MissingId>>}

C4_LinearHistoryLaneZero ==
    IsLinear =>
        \A j \in Rows :
            /\ graph[j].lane = 0
            /\ \A g \in Range(graph[j].lines) : g.from = g.to

\* A<-B<-C with C the tip, completely processed.
C4_Witness ==
    /\ IsLinear /\ total = 3 /\ Len(graph) = 3
    /\ graph[3].parents = <<>>
    /\ Len(graph[2].lines) > 0

-----------------------------------------------------------------------------
(* C6 (as claimed): buildGraph produces a row for every commit, a parent    *)
(* that the walk never delivers is never resolved to a lane, and no         *)
(* GraphLine is drawn for the edge to it, be it a first or a later parent.  *)

Done == Len(commits) = total

DanglingEdges == {e \in AllEdges : graph[e[1]].parents[e[2]] = MissingId}

\* The GraphLines drawn for an edge: the lower-half line of its child's row
\* (second and later parents) and, in later rows, every line touching its lane.
LinesDrawnFor(e) ==
    {<<e[1], i>> : i \in {i \in DOMAIN graph[e[1]].lines :
                       /\ ~graph[e[1]].lines[i].upper
                       /\ e[2] > 1
                       /\ HasEdgeLane(e)
                       /\ graph[e[1]].lines[i] = Lowers(graph[e[1]])[e[2] - 1]}}
    \cup
    {<<j, i>> \in Rows \X (1..(2 * MaxCommits + MaxParents)) :
        /\ j > e[1]
        /\ i \in DOMAIN graph[j].lines
        /\ HasEdgeLane(e)
        /\ EdgeLane(e) \in {graph[j].lines[i].from, graph[j].lines[i].to}}

RowForEveryCommit ==
    /\ Len(graph) = Len(commits)
    /\ \A j \in Rows : graph[j].id = commits[j].id /\ graph[j].lane >= 0
    /\ \A j \in Rows : graph[j].id # MissingId

C6_NoLineForMissingParent ==
    /\ RowForEveryCommit
    /\ \A e \in DanglingEdges : LinesDrawnFor(e) = {}

(* C6 (amended): buildGraph produces a row for every commit and a parent    *)
(* that the walk never delivers is never resolved to a lane: its lane entry *)
(* stays active to the end and no later row draws a line from or to that    *)
(* lane.  No GraphLine at all is drawn for the edge to a missing first      *)
(* parent; for a missing second or later parent exactly one GraphLine is    *)
(* drawn, the lower-half line from the commit's lane to the newly allocated *)
(* lane in the commit's own row.                                            *)

C6_MissingParentDangles ==
    /\ RowForEveryCommit
    /\ \A e \in DanglingEdges :
         /\ HasEdgeLane(e)
         /\ \E a \in Range(activeLanes) : a.id = MissingId /\ a.lane = EdgeLane(e)
         /\ e[2] = 1 => LinesDrawnFor(e) = {}
         /\ e[2] > 1 =>
              /\ Cardinality(LinesDrawnFor(e)) = 1
              /\ \A d \in LinesDrawnFor(e) : d[1] = e[1]

\* The walk ended with a missing first parent and a missing later parent,
\* and commits were processed after the second of them was registered.
C6_Witness ==
    /\ Done
    /\ \E e, f \in DanglingEdges : e[2] = 1 /\ f[2] > 1 /\ f[1] < Len(graph) /\ e[1] < Len(graph)

-----------------------------------------------------------------------------
(* Text.  A string is held as the sequence of lines that split("\n") gives: *)
(* never empty, the empty string being one empty line; a text that ends in  *)
(* a newline has an empty last line.  A line is known by what it starts     *)
(* with (tag) and by the rest of it (txt, or the numbers of a hunk header). *)

TextLine(tag, txt) ==
    [tag |-> tag, txt |-> txt, os |-> 0, oc |-> 0, ns |-> 0, nc |-> 0]

\* "@@ -os,oc +ns,nc @@"
HunkHeaderLine(os, oc, ns, nc) ==
    [tag |-> "@@", txt |-> 0, os |-> os, oc |-> oc, ns |-> ns, nc |-> nc]

EmptyLine == TextLine("", 0)
EmptyText == <<EmptyLine>>

StartsWith(line, prefix) == line.tag = prefix

\* lines.slice(from, to) with 1-based positions: the lines from .. to - 1.
Slice(lines, from, to) == SubSeq(lines, from, to - 1)

\* lines.join("\n"), held as split("\n") of the result.
Join(lines) == IF lines = <<>> THEN EmptyText ELSE lines

\* JavaScript truthiness of a string.
Truthy(text) == text # EmptyText

FirstIdx(lines, from, test(_)) ==
    LET hits == {i \in from..Len(lines) : test(lines[i])}
    IN IF hits = {} THEN 0 ELSE MinOf(hits)

-----------------------------------------------------------------------------
(* The version-control engine: file contents and unified diffs.  A file is  *)
(* a sequence of line tokens; the tokens of the two sides of a diff are     *)
(* unique and in one common order, which makes the alignment unique.        *)

FileLines   == 5   \* lines of the committed file
DiffContext == 1   \* context lines around a change

OrigLine(i)     == i
ModifiedLine(i) == FileLines + i
InsertedLine(i) == 2 * FileLines + i

EditKinds == {"keep", "mod", "del", "ins"}

\* The lines that get edited: the first, the middle and the last one.
EndSlots  == {1, FileLines}
EditSlots == EndSlots \cup {(FileLines + 1) \div 2}

VariantsOf(slots) ==
    {v \in [1..FileLines -> EditKinds] :
        \A i \in 1..FileLines : i \notin slots => v[i] = "keep"}

RenderContent(v) ==
    LET F[i \in 0..FileLines] ==
            IF i = 0 THEN <<>>
            ELSE F[i - 1] \o
                 CASE v[i] = "keep" -> <<OrigLine(i)>>
                   [] v[i] = "mod"  -> <<ModifiedLine(i)>>
                   [] v[i] = "del"  -> <<>>
                   [] v[i] = "ins"  -> <<OrigLine(i), InsertedLine(i)>>
    IN F[FileLines]

BaseContent == RenderContent([i \in 1..FileLines |-> "keep"])
AllContents == {RenderContent(v) : v \in VariantsOf(EditSlots)}
EndContents == {RenderContent(v) : v \in VariantsOf(EndSlots)}

\* The slot of the committed file a token belongs to.
SlotOf(t) == ((t - 1) % FileLines) + 1
SlotTokens(content, i) == {t \in Range(content) : SlotOf(t) = i}

\* Contents that differ from `content` in exactly one slot.
OneEditAway(content) ==
    {c \in AllContents :
        Cardinality({i \in 1..FileLines :
                        SlotTokens(c, i) # SlotTokens(content, i)}) = 1}

\* The edit script from a to b: context, deletion and addition cells.
RECURSIVE Align(_, _)
Align(a, b) ==
    IF a = <<>> THEN [i \in DOMAIN b |-> [op |-> "+", v |-> b[i]]]
    ELSE IF b = <<>> THEN [i \in DOMAIN a |-> [op |-> "-", v |-> a[i]]]
    ELSE IF a[1] = b[1]
         THEN <<[op |-> " ", v |-> a[1]]>> \o Align(Tail(a), Tail(b))
    ELSE IF a[1] \notin Range(b)
         THEN <<[op |-> "-", v |-> a[1]]>> \o Align(Tail(a), b)
    ELSE <<[op |-> "+", v |-> b[1]]>> \o Align(a, Tail(b))

Changed(cells, i) == cells[i].op # " "

\* A cell is shown when it is a change or within the context of one.
Shown(cells, i) ==
    \E j \in DOMAIN cells :
        /\ Changed(cells, j)
        /\ i - j <= DiffContext /\ j - i <= DiffContext

HunkStartsAt(cells, i) == Shown(cells, i) /\ (i = 1 \/ ~Shown(cells, i - 1))

HunkEndFrom(cells, i) ==
    MinOf({e \in i..Len(cells) :
              Shown(cells, e) /\ (e = Len(cells) \/ ~Shown(cells, e + 1))})

OldCells(cells, from, to) ==
    Cardinality({j \in from..to : cells[j].op \in {" ", "-"}})
NewCells(cells, from, to) ==
    Cardinality({j \in from..to : cells[j].op \in {" ", "+"}})

\* The header of the hunk of cells s..e; a side without lines starts "at" the
\* line before it.
HeaderOfCells(cells, s, e) ==
    LET oc == OldCells(cells, s, e)
        nc == NewCells(cells, s, e)
    IN HunkHeaderLine(OldCells(cells, 1, s - 1) + (IF oc = 0 THEN 0 ELSE 1), oc,
                      NewCells(cells, 1, s - 1) + (IF nc = 0 THEN 0 ELSE 1), nc)

HunkLinesOfCells(cells) ==
    LET F[i \in 0..Len(cells)] ==
            IF i = 0 THEN <<>>
            ELSE IF ~Shown(cells, i) THEN F[i - 1]
            ELSE F[i - 1]
                 \o (IF HunkStartsAt(cells, i)
                     THEN <<HeaderOfCells(cells, i, HunkEndFrom(cells, i))>>
                     ELSE <<>>)
                 \o <<TextLine(cells[i].op, cells[i].v)>>
    IN F[Len(cells)]

\* "diff --git a/f b/f", "--- a/f", "+++ b/f"
FileHeaderLines ==
    <<TextLine("d", 0), TextLine("-", 0 - 1), TextLine("+", 0 - 2)>>

\* get_diff: the unified diff from a to b, "" when they are equal.
DiffText(a, b) ==
    IF a = b THEN EmptyText
    ELSE FileHeaderLines \o HunkLinesOfCells(Align(a, b)) \o <<EmptyLine>>

-----------------------------------------------------------------------------
(* DiffView (src/unnamed/part_002) *)

IsHunk(line) == StartsWith(line, "@@")

\* Lines 24-32: the first hunk marker, the first line when there is none.
StartIdx(lines) ==
    IF FirstIdx(lines, 1, IsHunk) = 0 THEN 1 ELSE FirstIdx(lines, 1, IsHunk)

\* Lines 37, 116-128: the rows that carry the hunk buttons.
HunkRows(text) ==
    IF ~Truthy(text) THEN {}
    ELSE {i \in StartIdx(text)..Len(text) : IsHunk(text[i])}

\* Lines 70, 89.
HunkHeaderFirst(lines, h) == lines[StartIdx(lines)]
HunkHeaderAt(lines, h) == lines[h]

\* Lines 72-79, 90-97.
EndIdxOfText(lines, h) == Len(lines) + 1
EndIdx(lines, h) ==
    IF FirstIdx(lines, h + 1, IsHunk) > 0
    THEN FirstIdx(lines, h + 1, IsHunk)
    ELSE Len(lines) + 1

\* Lines 80-82, 98-100.
HunkLinesFromHeader(lines, h) == Join(Slice(lines, h, EndIdx(lines, h)))
HunkLinesAt(lines, h) == Join(Slice(lines, h + 1, EndIdx(lines, h)))

\* Lines 37-64: the rows renderDiff shows, none for the empty string.
RowClass(line) ==
    IF IsHunk(line) THEN "diff-line diff-hunk"
    ELSE IF StartsWith(line, "+") THEN "diff-line diff-add"
    ELSE IF StartsWith(line, "-") THEN "diff-line diff-remove"
    ELSE "diff-line"

\* Lines 43-47: the counters after a hunk row; the pattern takes the old
\* and the new start out of "@@ -os,oc +ns,nc @@".
HunkStartKept(line, counters) == counters

HunkStart(line, counters) == [old |-> line.os, new |-> line.ns]

\* Lines 50-64: the counters after a row.
AfterRow(line, counters) ==
    IF IsHunk(line) THEN HunkStart(line, counters)
    ELSE IF StartsWith(line, "+")
         THEN [old |-> counters.old, new |-> counters.new + 1]
    ELSE IF StartsWith(line, "-")
         THEN [old |-> counters.old + 1, new |-> counters.new]
    ELSE [old |-> counters.old + 1, new |-> counters.new + 1]

\* Lines 34-35, 37: oldLine and newLine after the first k rows.
RECURSIVE LineCounters(_, _)
LineCounters(lines, k) ==
    IF k = 0 THEN [old |-> 0, new |-> 0]
    ELSE AfterRow(lines[StartIdx(lines) + k - 1], LineCounters(lines, k - 1))

\* Lines 50-64: String(oldLine++) and String(newLine++) as the one-element
\* sequence of the number, the empty string as the empty sequence.
OldNum(lines, i) ==
    IF IsHunk(lines[StartIdx(lines) + i - 1]) \/ StartsWith(lines[StartIdx(lines) + i - 1], "+")
    THEN <<>>
    ELSE <<LineCounters(lines, i - 1).old>>

NewNum(lines, i) ==
    IF IsHunk(lines[StartIdx(lines) + i - 1]) \/ StartsWith(lines[StartIdx(lines) + i - 1], "-")
    THEN <<>>
    ELSE <<LineCounters(lines, i - 1).new>>

RenderDiff(text) ==
    IF ~Truthy(text) THEN <<>>
    ELSE [i \in 1..(Len(text) - StartIdx(text) + 1) |->
             [line      |-> text[StartIdx(text) + i - 1],
              isHunk    |-> IsHunk(text[StartIdx(text) + i - 1]),
              className |-> RowClass(text[StartIdx(text) + i - 1]),
              oldNum    |-> OldNum(text, i),
              newNum    |-> NewNum(text, i)]]

-----------------------------------------------------------------------------
(* HunkPatcher (spec.md 4.2) *)

\* The lines of a text: a newline ends a line, it does not start another one.
BodyLinesOf(text) ==
    IF text[Len(text)] = EmptyLine THEN SubSeq(text, 1, Len(text) - 1) ELSE text

\* parseDiff: one hunk per line that begins with "@@"; its body runs to the
\* next marker or the end of the text.
HunkAtRow(text, h) ==
    LET next == FirstIdx(text, h + 1, LAMBDA l : StartsWith(l, "@@"))
        stop == IF next > 0 THEN next ELSE Len(text) + 1
    IN [header |-> text[h], body |-> BodyLinesOf(Join(Slice(text, h + 1, stop)))]

ParseDiff(text) ==
    {HunkAtRow(text, h) : h \in {i \in DOMAIN text : StartsWith(text[i], "@@")}}

\* The file-level header: everything before the first marker.
FileHeaderOf(text) ==
    LET first == FirstIdx(text, 1, LAMBDA l : StartsWith(l, "@@"))
    IN IF first = 0 THEN <<>> ELSE SubSeq(text, 1, first - 1)

IsAddition(line) == StartsWith(line, "+")
IsDeletion(line) == StartsWith(line, "-")
IsContext(line)  == ~IsAddition(line) /\ ~IsDeletion(line)

CountOld(body) == Count(body, LAMBDA l : IsContext(l) \/ IsDeletion(l))
CountNew(body) == Count(body, LAMBDA l : IsContext(l) \/ IsAddition(l))

\* Additions and deletions swapped.
SwapLine(line) ==
    IF IsAddition(line) THEN [line EXCEPT !.tag = "-"]
    ELSE IF IsDeletion(line) THEN [line EXCEPT !.tag = "+"]
    ELSE line

ReverseBody(body) == [i \in DOMAIN body |-> SwapLine(body[i])]

\* The header of the synthesized hunk: the locator's start lines, the counts
\* recomputed from the body.
ForwardHeader(header, body) ==
    HunkHeaderLine(header.os, CountOld(body), header.ns, CountNew(body))

ReverseHeaderKeepsCounts(header, body) ==
    HunkHeaderLine(header.ns, header.oc, header.os, header.nc)
ReverseHeader(header, body) ==
    HunkHeaderLine(header.ns, CountOld(ReverseBody(body)),
                   header.os, CountNew(ReverseBody(body)))

\* extractHunk: file-level header + exactly this one hunk.
ExtractHunk(fullDiff, header, hunkLines, reverse) ==
    LET body == BodyLinesOf(hunkLines)
    IN FileHeaderOf(fullDiff)
       \o (IF reverse
           THEN <<ReverseHeader(header, body)>> \o ReverseBody(body)
           ELSE <<ForwardHeader(header, body)>> \o body)
       \o <<EmptyLine>>

\* The locator: the supplied hunk is a hunk of the supplied diff text and of
\* the file's current diff, and has a body.
LocatedAnywhere(fullDiff, header, hunkLines, current) ==
    BodyLinesOf(hunkLines) # <<>>
Located(fullDiff, header, hunkLines, current) ==
    LET hunk == [header |-> header, body |-> BodyLinesOf(hunkLines)]
    IN /\ hunk.body # <<>>
       /\ hunk \in ParseDiff(fullDiff)
       /\ hunk \in ParseDiff(current)

-----------------------------------------------------------------------------
(* The version-control engine: applying a patch *)

PatchRows(patch) == {i \in DOMAIN patch : StartsWith(patch[i], "@@")}

OldSide(body) ==
    LET kept == SelectIdx(body, LAMBDA l : ~IsAddition(l))
    IN [i \in DOMAIN kept |-> kept[i].txt]
NewSide(body) ==
    LET kept == SelectIdx(body, LAMBDA l : ~IsDeletion(l))
    IN [i \in DOMAIN kept |-> kept[i].txt]

\* One hunk applies where its old side stands in the content, at the line its
\* header names (moved by what earlier hunks of the patch added or removed).
HunkApplies(content, hunk, offset) ==
    LET at == hunk.header.os + offset + (IF hunk.header.oc = 0 THEN 1 ELSE 0)
    IN /\ hunk.header.oc = CountOld(hunk.body)
       /\ hunk.header.nc = CountNew(hunk.body)
       /\ at >= 1
       /\ at + hunk.header.oc - 1 <= Len(content)
       /\ SubSeq(content, at, at + hunk.header.oc - 1) = OldSide(hunk.body)

ApplyHunk(content, hunk, offset) ==
    LET at == hunk.header.os + offset + (IF hunk.header.oc = 0 THEN 1 ELSE 0)
    IN SubSeq(content, 1, at - 1)
       \o NewSide(hunk.body)
       \o SubSeq(content, at + hunk.header.oc, Len(content))

\* All hunks of the patch, in order; the patch is rejected as a whole when one
\* of them does not apply.
EngineApply(content, patch) ==
    LET rows == PatchRows(patch)
        F[n \in 0..Cardinality(rows)] ==
            IF n = 0 THEN [ok |-> rows # {}, content |-> content, offset |-> 0]
            ELSE LET prev == F[n - 1]
                     row  == CHOOSE r \in rows :
                                Cardinality({q \in rows : q < r}) = n - 1
                     hunk == HunkAtRow(patch, row)
                 IN IF prev.ok /\ HunkApplies(prev.content, hunk, prev.offset)
                    THEN [ok |-> TRUE,
                          content |-> ApplyHunk(prev.content, hunk, prev.offset),
                          offset |-> prev.offset + hunk.header.nc - hunk.header.oc]
                    ELSE [ok |-> FALSE, content |-> content, offset |-> 0]
    IN [ok |-> F[Cardinality(rows)].ok, content |-> F[Cardinality(rows)].content]

-----------------------------------------------------------------------------
(* StageView (src/src/components/StageView.tsx) over the backend commands   *)

NoFile == "none"   \* selectedFile = null
TheFile == "f"

GraphIdle ==
    /\ total = 0 /\ commits = <<>> /\ activeLanes = <<>>
    /\ nextColor = 0 /\ graph = <<>> /\ owned = <<>>

\* invoke("get_status"), with the selection its loadStatus closure captured.
StatusCall(selFile, selStaged) ==
    [cmd |-> "get_status", filePath |-> NoFile, staged |-> FALSE,
     selFile |-> selFile, selStaged |-> selStaged,
     fullDiff |-> EmptyText, header |-> EmptyLine, hunkLines |-> EmptyText]

\* invoke("get_diff", {filePath, staged})
DiffCall(filePath, staged) ==
    [cmd |-> "get_diff", filePath |-> filePath, staged |-> staged,
     selFile |-> NoFile, selStaged |-> FALSE,
     fullDiff |-> EmptyText, header |-> EmptyLine, hunkLines |-> EmptyText]

\* invoke("stage_hunk" | "unstage_hunk" | "discard_hunk", {...}), with the
\* selection the handler's closure captured for what it does afterwards.
HunkCall(cmd, selFile, selStaged, fullDiff, header, hunkLines) ==
    [cmd |-> cmd, filePath |-> selFile, staged |-> selStaged,
     selFile |-> selFile, selStaged |-> selStaged,
     fullDiff |-> fullDiff, header |-> header, hunkLines |-> hunkLines]

\* get_status: the file is unstaged when the working tree differs from the
\* index, staged when the index differs from the commit.
UnstagedNow == IF index # wt THEN <<TheFile>> ELSE <<>>
StagedNow   == IF head # index THEN <<TheFile>> ELSE <<>>

\* get_diff
CurrentDiff(staged) == IF staged THEN DiffText(head, index) ELSE DiffText(index, wt)

InitStage ==
    /\ GraphIdle
    /\ HistoryIdle
    /\ AppIdle
    /\ head = BaseContent
    /\ index = BaseContent
    /\ wt \in EndContents
    /\ unstagedFiles = <<>> /\ stagedFiles = <<>>
    /\ selectedFile = NoFile /\ selectedStaged = FALSE
    /\ diff = EmptyText
    /\ inflight = {StatusCall(NoFile, FALSE)}      \* line 35: loadStatus() on mount
    /\ dialog = "none"
    /\ externals = 0
    /\ last = NoCall

\* The user acts on a view that has settled: no call is in flight.
CanInvoke == inflight = {}

\* Lines 37-39: the working tree changes behind the application's back and the
\* repo-changed listener, registered by the first render, calls loadStatus.
RepoChanged ==
    /\ externals < MaxExternals
    /\ \E c \in OneEditAway(wt) : wt' = c
    /\ externals' = externals + 1
    /\ inflight' = inflight \cup {StatusCall(NoFile, FALSE)}
    /\ last' = NoCall
    /\ UNCHANGED <<avars, gvars, hvars, head, index, unstagedFiles, stagedFiles, selectedFile,
                   selectedStaged, diff, dialog>>

\* Lines 59-103: get_status returns to loadStatus.
LoadStatusReturn ==
    \E call \in inflight :
        /\ call.cmd = "get_status"
        /\ inflight' = inflight \ {call}
        /\ unstagedFiles' = UnstagedNow
        /\ stagedFiles' = StagedNow
        /\ LET gone == /\ call.selFile # NoFile
                       /\ IF call.selStaged
                          THEN call.selFile \notin Range(StagedNow)
                          ELSE call.selFile \notin Range(UnstagedNow)
               none == UnstagedNow = <<>> /\ StagedNow = <<>>
           IN IF gone \/ none
              THEN selectedFile' = NoFile /\ diff' = EmptyText
              ELSE UNCHANGED <<selectedFile, diff>>
        /\ last' = NoCall
        /\ UNCHANGED <<avars, gvars, hvars, rvars, selectedStaged, dialog, externals>>

\* Lines 119-123: a click on a file of one of the two lists.
FileSelect(staged) ==
    /\ TheFile \in Range(IF staged THEN stagedFiles ELSE unstagedFiles)
    /\ selectedFile' = TheFile
    /\ selectedStaged' = staged
    /\ inflight' = inflight \cup {DiffCall(TheFile, staged)}
    /\ last' = NoCall
    /\ UNCHANGED <<avars, gvars, hvars, rvars, unstagedFiles, stagedFiles, diff, dialog,
                   externals>>

HandleFileSelect == \E staged \in BOOLEAN : CanInvoke /\ FileSelect(staged)

\* Lines 105-117: get_diff returns to loadDiff.
LoadDiffReturn ==
    \E call \in inflight :
        /\ call.cmd = "get_diff"
        /\ inflight' = inflight \ {call}
        /\ diff' = CurrentDiff(call.staged)
        /\ last' = NoCall
        /\ UNCHANGED <<avars, gvars, hvars, rvars, unstagedFiles, stagedFiles, selectedFile,
                       selectedStaged, dialog, externals>>

\* The press of a button of row h, recorded with what DiffView hands to the
\* handler and the repository as it is.
Pressed(h, outcome) ==
    [NoCall EXCEPT !.cmd = outcome, !.row = h, !.fullDiff = diff,
                   !.header = HunkHeaderAt(diff, h),
                   !.hunkLines = HunkLinesAt(diff, h),
                   !.head = head, !.index = index, !.wt = wt]

\* Lines 149, 224: the handler returns before it invokes anything.
EarlyReturn(h) == Pressed(h, "return")

\* Lines 151-170, 226-233: the handler invokes the backend command.
Invoked(h) == Pressed(h, "invoke")

\* DiffView lines 68-85 and StageView lines 148-170: the Stage/Unstage button
\* of the hunk at row h.
\* Lines 151-169: the command handleStageHunk invokes.
StageCommandAlways(staged) == "stage_hunk"

StageCommand(staged) == IF staged THEN "unstage_hunk" ELSE "stage_hunk"

StageHunk(h) ==
    /\ selectedFile # NoFile
    /\ IF Truthy(HunkLinesAt(diff, h))
       THEN /\ inflight' = inflight \cup
                 {HunkCall(StageCommand(selectedStaged),
                           selectedFile, selectedStaged, diff,
                           HunkHeaderAt(diff, h), HunkLinesAt(diff, h))}
            /\ last' = Invoked(h)
       ELSE /\ inflight' = inflight            \* line 149: return
            /\ last' = EarlyReturn(h)
    /\ dialog' = "none"
    /\ UNCHANGED <<avars, gvars, hvars, rvars, unstagedFiles, stagedFiles, selectedFile,
                   selectedStaged, diff, externals>>

HandleStageHunk == \E h \in HunkRows(diff) : CanInvoke /\ StageHunk(h)

\* DiffView lines 87-103 and StageView lines 223-233, 266: the Discard button,
\* offered for unstaged changes only.
DiscardHunk(h) ==
    /\ selectedFile # NoFile
    /\ ~selectedStaged
    /\ IF Truthy(HunkLinesAt(diff, h))
       THEN /\ inflight' = inflight \cup
                 {HunkCall("discard_hunk", selectedFile, selectedStaged, diff,
                           HunkHeaderAt(diff, h), HunkLinesAt(diff, h))}
            /\ last' = Invoked(h)
       ELSE /\ inflight' = inflight            \* line 224: return
            /\ last' = EarlyReturn(h)
    /\ dialog' = "none"
    /\ UNCHANGED <<avars, gvars, hvars, rvars, unstagedFiles, stagedFiles, selectedFile,
                   selectedStaged, diff, externals>>

HandleDiscardHunk == \E h \in HunkRows(diff) : CanInvoke /\ DiscardHunk(h)

\* StageHunk / UnstageHunk / DiscardHunk (spec.md 6): what the command does to
\* the repository and what it returns.
HunkCommand(call) ==
    LET reverse == call.cmd # "stage_hunk"
        current == CurrentDiff(call.cmd = "unstage_hunk")
        target  == IF call.cmd = "discard_hunk" THEN wt ELSE index
        patch   == ExtractHunk(call.fullDiff, call.header, call.hunkLines, reverse)
        applied == EngineApply(target, patch)
    IN IF ~Located(call.fullDiff, call.header, call.hunkLines, current)
       THEN [result |-> "LocatorMismatch", index |-> index, wt |-> wt,
             patch |-> <<>>, current |-> current]
       ELSE IF ~applied.ok
       THEN [result |-> "EngineApplyFailure", index |-> index, wt |-> wt,
             patch |-> patch, current |-> current]
       ELSE [result |-> "success",
             index |-> IF call.cmd = "discard_hunk" THEN index ELSE applied.content,
             wt    |-> IF call.cmd = "discard_hunk" THEN applied.content ELSE wt,
             patch |-> patch, current |-> current]

\* Lines 173-180, 236-240: the catch block reports the error in a dialog.
DialogAfter(result, shown) == IF result = "success" THEN shown ELSE result

\* Lines 171-172, 234-235: after the await the handler calls loadStatus() and
\* loadDiff(selectedFile, selectedStaged) with the selection of its closure;
\* the catch block invokes nothing.
ResumeStatusOnly(call, result) ==
    IF result = "success" THEN {StatusCall(call.selFile, call.selStaged)} ELSE {}
ResumeRetries(call, result) ==
    IF result = "success"
    THEN {StatusCall(call.selFile, call.selStaged),
          DiffCall(call.selFile, call.selStaged)}
    ELSE {call}
Resume(call, result) ==
    IF result = "success"
    THEN {StatusCall(call.selFile, call.selStaged),
          DiffCall(call.selFile, call.selStaged)}
    ELSE {}

\* The backend runs a hunk command and the handler resumes: lines 171-172 and
\* 234-235 after success, the catch blocks (174-180, 237-240) after an error.
HunkCommandReturn ==
    \E call \in inflight :
        /\ call.cmd \in {"stage_hunk", "unstage_hunk", "discard_hunk"}
        /\ LET r == HunkCommand(call)
           IN /\ index' = r.index
              /\ wt' = r.wt
              /\ inflight' = (inflight \ {call}) \cup Resume(call, r.result)
              /\ dialog' = DialogAfter(r.result, dialog)
              /\ last' = [cmd |-> call.cmd, result |-> r.result,
                          fullDiff |-> call.fullDiff, header |-> call.header,
                          hunkLines |-> call.hunkLines, current |-> r.current,
                          patch |-> r.patch,
                          head |-> head, index |-> index, wt |-> wt, row |-> 0]
        /\ UNCHANGED <<avars, gvars, hvars, head, unstagedFiles, stagedFiles, selectedFile,
                       selectedStaged, diff, externals>>

NextStage ==
    \/ RepoChanged
    \/ LoadStatusReturn
    \/ HandleFileSelect
    \/ LoadDiffReturn
    \/ HandleStageHunk
    \/ HandleDiscardHunk
    \/ HunkCommandReturn

SpecStage == InitStage /\ [][NextStage]_vars

-----------------------------------------------------------------------------
(* extractHunk on its own: any header, any body, cut out of the diff text   *)
(* by DiffView.                                                             *)

BodyAlphabet ==
    {TextLine(" ", 1), TextLine("+", 1), TextLine("-", 1), EmptyLine}

Bodies == UNION {[1..n -> BodyAlphabet] : n \in 1..MaxBody}

Headers ==
    {HunkHeaderLine(1, oc, 1, nc) : oc \in 0..MaxBody, nc \in 0..MaxBody}

\* A diff text of one hunk, with or without another hunk after it.
SuppliedDiffs ==
    {FileHeaderLines \o <<hd>> \o body \o tail :
        hd \in Headers, body \in Bodies,
        tail \in {<<>>, <<EmptyLine>>, <<HunkHeaderLine(1, 1, 1, 1), TextLine(" ", 1)>>}}

InitPatch ==
    /\ GraphIdle
    /\ HistoryIdle
    /\ AppIdle
    /\ head = <<>> /\ index = <<>> /\ wt = <<>>
    /\ unstagedFiles = <<TheFile>> /\ stagedFiles = <<>>
    /\ selectedFile = TheFile /\ selectedStaged = FALSE
    /\ diff \in SuppliedDiffs
    /\ inflight = {}
    /\ dialog = "none"
    /\ externals = 0
    /\ last = NoCall

\* The hunk of row h, cut out by DiffView and passed on by StageView (which
\* returns early on an empty body), is synthesized into a patch.
Synthesize(reverse) ==
    \E h \in HunkRows(diff) :
        /\ last = NoCall
        /\ Truthy(HunkLinesAt(diff, h))
        /\ last' = [NoCall EXCEPT
                       !.cmd = IF reverse THEN "extract_reverse" ELSE "extract",
                       !.fullDiff = diff,
                       !.header = HunkHeaderAt(diff, h),
                       !.hunkLines = HunkLinesAt(diff, h),
                       !.patch = ExtractHunk(diff, HunkHeaderAt(diff, h),
                                             HunkLinesAt(diff, h), reverse)]
        /\ UNCHANGED <<avars, gvars, hvars, rvars, unstagedFiles, stagedFiles, selectedFile,
                       selectedStaged, diff, inflight, dialog, externals>>

SynthesizeForward == Synthesize(FALSE)
SynthesizeReverse == Synthesize(TRUE)

NextPatch == SynthesizeForward \/ SynthesizeReverse

SpecPatch == InitPatch /\ [][NextPatch]_vars

-----------------------------------------------------------------------------
(* StageView and DiffView over any diff text get_diff may have returned:    *)
(* hunks with and without a body, texts with and without a hunk marker.     *)

Markerless == Bodies \cup {FileHeaderLines \o body : body \in Bodies}

\* Hunk headers with nothing, or only the end of the text, after them.
Bodiless ==
    {FileHeaderLines \o <<hd>> \o tail :
        hd \in Headers,
        tail \in {<<>>, <<EmptyLine>>, <<HunkHeaderLine(1, 1, 1, 1), TextLine(" ", 1)>>}}

HeldDiffs == SuppliedDiffs \cup Markerless \cup Bodiless

InitView ==
    /\ GraphIdle
    /\ HistoryIdle
    /\ AppIdle
    /\ head = BaseContent /\ index = BaseContent
    /\ wt = RenderContent([i \in 1..FileLines |-> IF i = 1 THEN "mod" ELSE "keep"])
    /\ unstagedFiles = <<TheFile>> /\ stagedFiles = <<>>
    /\ selectedFile = TheFile /\ selectedStaged \in BOOLEAN
    /\ diff \in HeldDiffs
    /\ inflight = {}
    /\ dialog = "none"
    /\ externals = 0
    /\ last = NoCall

NextView ==
    \/ HandleStageHunk
    \/ HandleDiscardHunk
    \/ HunkCommandReturn

SpecView == InitView /\ [][NextView]_vars

-----------------------------------------------------------------------------
(* C11: after a stage, unstage or discard press on a hunk whose body is     *)
(* empty an error is showing, and the index and the working tree are what   *)
(* they were.                                                               *)

C11_EmptyBodyReported ==
    (last.cmd = "return" /\ ~Truthy(last.hunkLines)) =>
        /\ dialog # "none"
        /\ index = last.index /\ wt = last.wt

\* The press on a hunk header that is the last line of the text: the handler
\* returned, nothing was invoked, nothing is shown.
C11_Witness ==
    /\ last.cmd = "return" /\ ~Truthy(last.hunkLines)
    /\ last.header = last.fullDiff[Len(last.fullDiff)]
    /\ inflight = {} /\ dialog = "none"
    /\ index = last.index /\ wt = last.wt

-----------------------------------------------------------------------------
(* C12: the displayed diff has one hunk row per line beginning with "@@";   *)
(* the lines before the first marker are in no hunk and stay in the held    *)
(* text, which is handed over whole; and a press on a hunk row hands over   *)
(* that row's line as the header and, as the body, exactly the lines after  *)
(* it up to the next marker or the end of the text.                         *)

Markers(text) == {i \in DOMAIN text : text[i].tag = "@@"}

\* The lines after row h that no marker separates from it.
RunAfter(text, h) ==
    {i \in (h + 1)..Len(text) : \A j \in (h + 1)..i : j \notin Markers(text)}

IsBodyOf(body, text, h) ==
    IF RunAfter(text, h) = {} THEN body = EmptyText
    ELSE /\ Len(body) = Cardinality(RunAfter(text, h))
         /\ \A i \in RunAfter(text, h) : body[i - h] = text[i]

C12_HunksSplitAtMarkers ==
    /\ Truthy(diff) =>
          /\ HunkRows(diff) = Markers(diff)
          /\ Cardinality({i \in DOMAIN RenderDiff(diff) : RenderDiff(diff)[i].isHunk})
                = Cardinality(Markers(diff))
    /\ last.cmd \in {"invoke", "return"} =>
          /\ last.row \in Markers(diff)
          /\ last.fullDiff = diff
          /\ last.header = diff[last.row]
          /\ IsBodyOf(last.hunkLines, diff, last.row)
          /\ \A i \in DOMAIN diff :
                (\A m \in Markers(diff) : i < m) => i \notin RunAfter(diff, last.row)
          /\ last.cmd = "invoke" =>
                \E call \in inflight :
                    /\ call.fullDiff = diff
                    /\ call.header = last.header
                    /\ call.hunkLines = last.hunkLines

\* The first of two hunks was pressed in a text with file-level header lines;
\* its body of two lines stops short of the second hunk.
C12_Witness ==
    /\ last.cmd = "invoke"
    /\ last.row > 1 /\ 1 \notin Markers(diff)
    /\ \E m \in Markers(diff) : m > last.row
    /\ Len(last.hunkLines) = 2
    /\ last.hunkLines[2] # EmptyLine
    /\ C12_HunksSplitAtMarkers

-----------------------------------------------------------------------------
(* C13: a hunk action invokes its command with the diff text StageView      *)
(* holds and the pressed hunk's header and body; when the command has       *)
(* succeeded, a get_status request and a get_diff request for the file and  *)
(* side that were selected when the action was issued are in flight.        *)

HunkCmds == {"stage_hunk", "unstage_hunk", "discard_hunk"}

C13_SendsHeldDiffThenReloads ==
    /\ last.cmd = "invoke" =>
          \E call \in inflight :
              /\ call.cmd \in HunkCmds
              /\ call.filePath = selectedFile
              /\ call.fullDiff = diff
              /\ call.header = diff[last.row]
              /\ IsBodyOf(call.hunkLines, diff, last.row)
    /\ (last.cmd \in HunkCmds /\ last.result = "success") =>
          /\ \E call \in inflight : call.cmd = "get_status"
          /\ \E call \in inflight :
                /\ call.cmd = "get_diff"
                /\ call.filePath = TheFile
                /\ call.staged = (last.cmd = "unstage_hunk")

\* A hunk of the staged side has been unstaged from a diff of two hunks: both
\* requests are in flight and nothing else is.
C13_Witness ==
    /\ last.cmd = "unstage_hunk" /\ last.result = "success"
    /\ Cardinality(ParseDiff(last.fullDiff)) = 2
    /\ Cardinality(inflight) = 2
    /\ DiffCall(TheFile, TRUE) \in inflight
    /\ StatusCall(TheFile, TRUE) \in inflight

-----------------------------------------------------------------------------
(* C14: the step in which a hunk command fails shows its error in the       *)
(* dialog, takes the one call of that command out of flight and puts no     *)
(* call in flight, so that no hunk command is in flight afterwards, and     *)
(* leaves the file lists, the selection and the held diff as they were.     *)

HunkCallsIn(calls) == {call \in calls : call.cmd \in HunkCmds}

FailedReturn ==
    (last'.cmd \in HunkCmds /\ last'.result # "success") =>
        /\ dialog' = last'.result
        /\ Cardinality(HunkCallsIn(inflight)) = 1
        /\ inflight' \subseteq inflight
        /\ HunkCallsIn(inflight') = {}
        /\ unstagedFiles' = unstagedFiles /\ stagedFiles' = stagedFiles
        /\ selectedFile' = selectedFile /\ selectedStaged' = selectedStaged
        /\ diff' = diff

C14_FailureReportedNotRetried == [][FailedReturn]_vars

\* A stage_hunk was rejected: its error is showing, nothing is in flight and
\* the stale diff it was issued from is still held.
C14_Witness ==
    /\ last.cmd = "stage_hunk" /\ last.result = "LocatorMismatch"
    /\ dialog = "LocatorMismatch"
    /\ inflight = {}
    /\ selectedFile = TheFile
    /\ diff = last.fullDiff

-----------------------------------------------------------------------------
(* C15: once the requests that followed a repository-change notification    *)
(* have returned, the diff text held for the selected file is the file's    *)
(* diff as it is now: the snapshot fetched before the notification has been *)
(* replaced.                                                                *)

Settled == inflight = {} /\ selectedFile # NoFile

C15_HeldDiffRefetchedAfterChange ==
    (externals > 0 /\ Settled) => diff = CurrentDiff(selectedStaged)

\* Without a notification the held diff is never stale once the view settled.
HeldDiffFreshWithoutChange ==
    (externals = 0 /\ Settled) => diff = CurrentDiff(selectedStaged)

\* After the notification only get_status was requested; it has returned, the
\* file is still listed, and the held diff is the one fetched before.
C15_Witness ==
    /\ externals > 0 /\ Settled
    /\ last = NoCall
    /\ selectedFile \in Range(unstagedFiles) /\ ~selectedStaged
    /\ Truthy(diff)
    /\ diff # CurrentDiff(selectedStaged)

-----------------------------------------------------------------------------
(* C16: a held diff text without a hunk marker is treated as an empty diff: *)
(* it has no hunks, DiffView shows no lines for it and offers no hunk row,  *)
(* and no hunk action can be taken.                                         *)

NoHunkAction ==
    /\ HunkRows(diff) = {}
    /\ ParseDiff(diff) = {}
    /\ ~ENABLED (HandleStageHunk \/ HandleDiscardHunk)

C16_MarkerlessTreatedAsEmpty ==
    Markers(diff) = {} =>
        /\ NoHunkAction
        /\ RenderDiff(diff) = <<>>

\* What DiffView does with such a text: no hunk and no action, and one plain
\* row for each of its lines unless the text is the empty string.
MarkerlessShownAsLines ==
    Markers(diff) = {} =>
        /\ NoHunkAction
        /\ Len(RenderDiff(diff)) = IF Truthy(diff) THEN Len(diff) ELSE 0
        /\ \A i \in DOMAIN RenderDiff(diff) :
              /\ RenderDiff(diff)[i].line = diff[i]
              /\ ~RenderDiff(diff)[i].isHunk

\* A text of file-level header lines and more lines, no marker: a row is
\* shown for each line and none is a hunk row.
C16_Witness ==
    /\ Markers(diff) = {}
    /\ Len(diff) > Len(FileHeaderLines)
    /\ SubSeq(diff, 1, Len(FileHeaderLines)) = FileHeaderLines
    /\ Len(RenderDiff(diff)) = Len(diff)
    /\ NoHunkAction

-----------------------------------------------------------------------------
(* C17: in every step of the scan, a commit that no active lane expects     *)
(* gets the lowest lane index that no active lane entry uses; an active     *)
(* lane entry on the commit's lane expects that commit; and two active lane *)
(* entries on one lane expect the same commit.                              *)

Expecting(active, id) == {e \in Range(active) : e.id = id}

LanesApart(active) ==
    \A i, j \in DOMAIN active :
        (i # j /\ active[i].lane = active[j].lane) => active[i].id = active[j].id

ScanStepKeepsLanesApart ==
    Len(graph') > Len(graph) =>
        LET row == graph'[Len(graph')]
        IN /\ Expecting(activeLanes, row.id) = {} =>
                 /\ row.lane \notin LanesOf(activeLanes)
                 /\ \A k \in 0..(row.lane - 1) : k \in LanesOf(activeLanes)
           /\ \A e \in Range(activeLanes) : e.lane = row.lane => e.id = row.id
           /\ LanesApart(activeLanes)
           /\ LanesApart(activeLanes')

C17_FreshCommitLowestUnusedLane == [][ScanStepKeepsLanesApart]_vars

\* The fourth commit is a tip nobody expects; lanes 0 and 2 are in use, lane 1
\* was retired by a root commit, and the tip is put on lane 1.
C17_Witness ==
    /\ Len(graph) = 4
    /\ EdgesInto(4) = {}
    /\ graph[4].lane = 1
    /\ graph[3].parents = <<>> /\ graph[3].lane = 1
    /\ {0, 2} \subseteq LanesOf(activeLanes)

-----------------------------------------------------------------------------
(* A long history walk: PairRun branches of two commits each, a tip and its *)
(* parentless parent, delivered before any other commits.                   *)

InRun(i) == i <= 2 * PairRun

RunParents(i) == IF i % 2 = 1 THEN <<i + 1>> ELSE <<>>

\* Parent references outside the run, which alone count against MaxEdges.
FreeBudget(cs) ==
    LET used == EdgeCount(cs) - PairRun
    IN IF MaxEdges - used < MaxParents THEN MaxEdges - used ELSE MaxParents

InitLong ==
    /\ StageIdle
    /\ HistoryIdle
    /\ AppIdle
    /\ total \in (2 * PairRun + 1)..(2 * PairRun + MaxCommits)
    /\ commits = <<>>
    /\ activeLanes = <<>>
    /\ nextColor = 0
    /\ graph = <<>>
    /\ owned = <<>>

BuildRunStep ==
    /\ InRun(Len(commits) + 1)
    /\ Scan(RunParents(Len(commits) + 1))
    /\ UNCHANGED <<total, rvars, svars, hvars, avars>>

BuildFreeStep ==
    /\ ~InRun(Len(commits) + 1)
    /\ Len(commits) < total
    /\ \E ps \in DistinctSeqs(ParentPool(Len(commits) + 1, total),
                                FreeBudget(commits)) : Scan(ps)
    /\ UNCHANGED <<total, rvars, svars, hvars, avars>>

NextLong == BuildRunStep \/ BuildFreeStep

SpecLong == InitLong /\ [][NextLong]_vars

-----------------------------------------------------------------------------
(* C18: the colour counter never decreases and grows in a scan step by the  *)
(* number of lanes the step allocates, each taking the counter's value as   *)
(* its colour; GraphLines whose colour indices are congruent modulo the     *)
(* palette size are drawn in the same hue, and no more hues than the        *)
(* palette size are drawn.                                                  *)

PaletteSize == HueCircle \div HueStep

AllLines == UNION {Range(graph[j].lines) : j \in Rows}

HuesCycle ==
    /\ \A l, m \in AllLines :
          (l.color % PaletteSize = m.color % PaletteSize) => Hue(l.color) = Hue(m.color)
    /\ Cardinality({Hue(l.color) : l \in AllLines}) <= PaletteSize
    /\ \A l \in AllLines : l.color < nextColor

\* Lanes the step of this row allocates: the commit's own when no active lane
\* expected it, and one for each parent after the first.
Allocated(row, active) ==
    (IF Expecting(active, row.id) = {} THEN 1 ELSE 0)
        + (IF Len(row.parents) > 1 THEN Len(row.parents) - 1 ELSE 0)

CounterCounts ==
    Len(graph') > Len(graph) =>
        LET row == graph'[Len(graph')]
        IN /\ nextColor' = nextColor + Allocated(row, activeLanes)
           /\ Expecting(activeLanes, row.id) = {} => row.colorIndex = nextColor
           /\ \A l \in Range(row.lines) : ~l.upper => l.color >= nextColor

C18_ColoursCycleOverPalette == []HuesCycle /\ [][CounterCounts]_vars

\* Two lines of different colour indices, congruent modulo the palette size,
\* are drawn in one hue.
C18_Witness ==
    \E l, m \in AllLines :
        /\ l.color # m.color
        /\ l.color % PaletteSize = m.color % PaletteSize
        /\ Hue(l.color) = Hue(m.color)
        /\ Cardinality({n.color : n \in AllLines}) > Cardinality({Hue(n.color) : n \in AllLines})

-----------------------------------------------------------------------------
(* CommitHistory (src/unnamed/part_001) over get_commits, get_branch_head   *)

\* Histories get_commits may walk: nothing, a chain, a chain under a merge.
Chain(n) ==
    [i \in 1..n |-> [id |-> i, parents |-> IF i < n THEN <<i + 1>> ELSE <<>>]]

MergeWalk(n) ==
    [i \in 1..(n + 1) |->
        [id |-> i,
         parents |-> IF i = 1 THEN <<2, n + 1>>
                     ELSE IF i <= n THEN <<i + 1>> ELSE <<>>]]

Walks == {Chain(n) : n \in 0..WalkLen} \cup {MergeWalk(WalkLen)}

\* get_commits: buildGraph over the walk.
RECURSIVE ScanFrom(_, _, _, _)
ScanFrom(walk, i, active, counter) ==
    IF i > Len(walk) THEN <<>>
    ELSE <<ProcessCommit(walk[i], active, counter).row>>
            \o ScanFrom(walk, i + 1, ProcessCommit(walk[i], active, counter).active,
                        ProcessCommit(walk[i], active, counter).color)

GraphOf(walk) == ScanFrom(walk, 1, <<>>, 0)

\* What get_commits answers for each history.
Graphs == [walk \in Walks |-> GraphOf(walk)]

Branches == {"main", "dev"}

\* Lines 105-126: the three get_commits calls loadAllCommits awaits together.
CommitsCall(branch, seq) ==
    [cmd |-> "get_commits", branch |-> branch, all |-> <<>>, seq |-> seq]

\* Lines 138-141: get_branch_head, with the All list the closure holds.
HeadCall(branch, all, seq) ==
    [cmd |-> "get_branch_head", branch |-> branch, all |-> all, seq |-> seq]

\* Line 187
FilteredCommits == commitLists[branchFilter]

\* Lines 47-49, 103: the mount effect calls loadAllCommits.
InitHistory ==
    /\ GraphIdle
    /\ StageIdle
    /\ AppIdle
    /\ commitLists = NoLists
    /\ selectedCommit = NoCommit
    /\ loading = TRUE
    /\ branchFilter = "All"
    /\ currentBranch \in Branches
    /\ loads = {CommitsCall(currentBranch, 1)}
    /\ reported = NoCommit
    /\ issued = 1
    /\ headReply = NoReply

\* Lines 105-136, 162-166: the three lists arrive, or one of the calls fails.
CommitsReturn ==
    \E call \in loads, ok \in BOOLEAN, all \in Walks, local \in Walks, cur \in Walks :
        /\ call.cmd = "get_commits"
        /\ Len(local) <= Len(all) /\ Len(cur) <= Len(all)
        /\ IF ~ok
           THEN /\ loads' = loads \ {call}
                /\ loading' = FALSE
                /\ UNCHANGED commitLists
           ELSE /\ commitLists' =
                      [All |-> Graphs[all], Local |-> Graphs[local],
                       Current |-> IF call.branch # NoBranch THEN Graphs[cur] ELSE <<>>]
                /\ IF all # <<>> /\ call.branch # NoBranch
                   THEN /\ loads' = (loads \ {call}) \cup {HeadCall(call.branch, Graphs[all], call.seq)}
                        /\ UNCHANGED loading
                   ELSE /\ loads' = loads \ {call}
                        /\ loading' = FALSE
        /\ UNCHANGED <<avars, gvars, rvars, svars, selectedCommit, branchFilter,
                       currentBranch, reported, issued, headReply>>

\* Line 142: allList.find((c) => c.id === branchHeadSha)
FindCommit(all, sha) ==
    IF \E i \in DOMAIN all : all[i].id = sha
    THEN all[MinOf({i \in DOMAIN all : all[i].id = sha})]
    ELSE NoCommit

\* Lines 142-145, 156-160.
CommitToSelectFirst(all, ok, sha) == all[1]

CommitToSelect(all, ok, sha) ==
    IF ok /\ FindCommit(all, sha) # NoCommit THEN FindCommit(all, sha) ELSE all[1]

\* Lines 138-166: get_branch_head returns a commit id, or fails.
HeadReturn ==
    \E call \in loads, ok \in BOOLEAN :
        \E sha \in {c.id : c \in Range(call.all)} \cup {MissingId} :
            /\ call.cmd = "get_branch_head"
            /\ selectedCommit' = CommitToSelect(call.all, ok, sha)
            /\ reported' = CommitToSelect(call.all, ok, sha)
            /\ headReply' = [ok |-> ok, sha |-> IF ok THEN sha ELSE MissingId]
            /\ loading' = FALSE
            /\ loads' = loads \ {call}
            /\ UNCHANGED <<avars, gvars, rvars, svars, commitLists, branchFilter,
                           currentBranch, issued>>

\* Lines 169-172, 245-260: a click on a row of the table.
HandleCommitClick ==
    \E i \in DOMAIN FilteredCommits :
        /\ ~loading
        /\ selectedCommit' = FilteredCommits[i]
        /\ reported' = FilteredCommits[i]
        /\ UNCHANGED <<avars, gvars, rvars, svars, commitLists, loading, branchFilter,
                       currentBranch, loads, issued, headReply>>

\* Lines 47-63: what the effects do to the pending loads when branchFilter
\* changes; the load effect depends on repoPath and currentBranch only.
LoadsAfterFilterReloads(calls) == calls \cup {CommitsCall(currentBranch, issued + 1)}
LoadsAfterFilter(calls) == calls

\* Lines 192-211: the filter buttons.
SetBranchFilter ==
    \E f \in {"All", "Local"} \cup (IF currentBranch # NoBranch THEN {"Current"} ELSE {}) :
        /\ f # branchFilter
        /\ branchFilter' = f
        /\ loads' = LoadsAfterFilter(loads)
        /\ UNCHANGED <<avars, gvars, rvars, svars, commitLists, selectedCommit, loading,
                       currentBranch, reported, issued, headReply>>

\* src/src/App.tsx:604, 766 and lines 47-49, 103 here: another branch is
\* picked in the sidebar, the prop changes and the load effect runs again
\* while the loads made before stay in flight.
SetSelectedBranch ==
    \E b \in Branches \ {currentBranch} :
        /\ issued < MaxLoads
        /\ currentBranch' = b
        /\ issued' = issued + 1
        /\ loading' = TRUE
        /\ loads' = loads \cup {CommitsCall(b, issued + 1)}
        /\ UNCHANGED <<avars, gvars, rvars, svars, commitLists, selectedCommit,
                       branchFilter, reported, headReply>>

NextHistory ==
    \/ CommitsReturn
    \/ HeadReturn
    \/ HandleCommitClick
    \/ SetBranchFilter

SpecHistory == InitHistory /\ [][NextHistory]_vars

\* CommitHistory over one repository while other branches are picked: every
\* get_commits that succeeds answers with the walks of that repository, and
\* the walk from main differs from the walk from dev.
RepoAll == MergeWalk(WalkLen)

RepoCurrent(branch) == IF branch = "main" THEN MergeWalk(WalkLen) ELSE Chain(WalkLen)

RepoLists(branch) ==
    [All |-> Graphs[RepoAll], Local |-> Graphs[RepoAll],
     Current |-> Graphs[RepoCurrent(branch)]]

\* The step stores the repository's walks for the branch of the call that
\* returned, or stores nothing because the call failed.
AnswersOfRepo ==
    \E call \in loads :
        /\ call \notin loads'
        /\ IF HeadCall(call.branch, Graphs[RepoAll], call.seq) \in loads'
           THEN commitLists' = RepoLists(call.branch)
           ELSE commitLists' = commitLists

CommitsReturnOfRepo == CommitsReturn /\ AnswersOfRepo

NextReload ==
    \/ CommitsReturnOfRepo
    \/ HeadReturn
    \/ HandleCommitClick
    \/ SetBranchFilter
    \/ SetSelectedBranch

SpecReload == InitHistory /\ [][NextReload]_vars

-----------------------------------------------------------------------------
(* C19: a step that changes the branch filter puts no request in flight and *)
(* leaves the three stored lists, with the lane and lines of every commit,  *)
(* and the selected commit as they were.                                    *)

FilterSwitchKeepsLists ==
    branchFilter' # branchFilter =>
        /\ loads' = loads
        /\ commitLists' = commitLists
        /\ selectedCommit' = selectedCommit
        /\ reported' = reported

C19_FilterSwitchNoRefetch == [][FilterSwitchKeepsLists]_vars

\* The filter is on the current branch's list, which differs from the All
\* list with its merge; a commit is selected and nothing is in flight.
C19_Witness ==
    /\ branchFilter = "Current"
    /\ loads = {}
    /\ selectedCommit # NoCommit
    /\ \E i \in DOMAIN commitLists.All : commitLists.All[i].lines # <<>>
    /\ commitLists.Current # commitLists.All
    /\ commitLists.Current # <<>>

-----------------------------------------------------------------------------
(* C20: in every step in which a loadStatus completes, if the selected file *)
(* is not in the new list of its selected side, or both new lists are       *)
(* empty, the selection is cleared and the diff is emptied.                 *)

StatusReturned(call) ==
    /\ call.cmd = "get_status"
    /\ call \in inflight /\ call \notin inflight'

SelectionGone ==
    \/ /\ selectedFile # NoFile
       /\ selectedFile \notin
             Range(IF selectedStaged THEN stagedFiles' ELSE unstagedFiles')
    \/ unstagedFiles' = <<>> /\ stagedFiles' = <<>>

LoadStatusClears ==
    (\E call \in inflight : StatusReturned(call)) =>
        (SelectionGone => selectedFile' = NoFile /\ diff' = EmptyText)

C20_LoadStatusClearsSelection == [][LoadStatusClears]_vars

\* The same for a loadStatus whose closure holds the selection as it is now.
LoadStatusClearsOwnSelection ==
    [][(\E call \in inflight :
            /\ StatusReturned(call)
            /\ call.selFile = selectedFile /\ call.selStaged = selectedStaged)
        => (SelectionGone => selectedFile' = NoFile /\ diff' = EmptyText)]_vars

\* After a repo-changed notification everything has returned: the file is
\* selected as unstaged, but it is only in the staged list.
C20_Witness ==
    /\ externals > 0
    /\ inflight = {}
    /\ selectedFile = TheFile /\ ~selectedStaged
    /\ unstagedFiles = <<>> /\ stagedFiles = <<TheFile>>
    /\ Truthy(diff)

-----------------------------------------------------------------------------
(* C21: in every step in which the get_branch_head call of a load returns,  *)
(* the commit selected is the commit of that load's All list whose id is    *)
(* the answered branch head, or the first commit of the All list when no    *)
(* commit of the list has that id or the call failed, and onCommitSelect is *)
(* called with the same commit.                                             *)

HeadReturned(call) ==
    /\ call.cmd = "get_branch_head"
    /\ call \in loads /\ call \notin loads'

HeadInList(all) == headReply'.ok /\ \E c \in Range(all) : c.id = headReply'.sha

SelectsHeadOrFirst ==
    \A call \in loads :
        HeadReturned(call) =>
            /\ call.all # <<>> /\ call.branch # NoBranch
            /\ selectedCommit' \in Range(call.all)
            /\ HeadInList(call.all) => selectedCommit'.id = headReply'.sha
            /\ ~HeadInList(call.all) => selectedCommit' = call.all[1]
            /\ reported' = selectedCommit'

C21_HeadCommitSelected == [][SelectsHeadOrFirst]_vars

\* The one load has finished; the branch head was found in the All list,
\* below its first commit, and is the commit selected and reported.
C21_Witness ==
    /\ issued = 1 /\ loads = {}
    /\ headReply.ok
    /\ Len(commitLists.All) > 1
    /\ selectedCommit.id = headReply.sha
    /\ selectedCommit # commitLists.All[1]
    /\ selectedCommit \in Range(commitLists.All)
    /\ reported = selectedCommit

-----------------------------------------------------------------------------
(* StageView while the user clicks without waiting for the answers: a file  *)
(* with staged and unstaged changes, the two entries of which are selected  *)
(* while get_diff calls are in flight, until a hunk command is invoked. The *)
(* repository does not change, so what get_diff returns for a pair is       *)
(* CurrentDiff of that pair throughout.                                     *)

InitSelect ==
    /\ GraphIdle
    /\ HistoryIdle
    /\ AppIdle
    /\ head = BaseContent
    /\ index \in EndContents
    /\ wt \in EndContents
    /\ unstagedFiles = <<>> /\ stagedFiles = <<>>
    /\ selectedFile = NoFile /\ selectedStaged = FALSE
    /\ diff = EmptyText
    /\ inflight = {StatusCall(NoFile, FALSE)}
    /\ dialog = "none"
    /\ externals = 0
    /\ last = NoCall

\* No hunk command has been invoked yet.
NoneInvoked == \A call \in inflight : call.cmd \notin HunkCmds

\* The handlers, called whether or not earlier calls have returned.
ClickFile == \E staged \in BOOLEAN : NoneInvoked /\ FileSelect(staged)

ClickStage == \E h \in HunkRows(diff) : NoneInvoked /\ StageHunk(h)

ClickDiscard == \E h \in HunkRows(diff) : NoneInvoked /\ DiscardHunk(h)

NextSelect ==
    \/ LoadStatusReturn
    \/ ClickFile
    \/ LoadDiffReturn
    \/ ClickStage
    \/ ClickDiscard

SpecSelect == InitSelect /\ [][NextSelect]_vars

-----------------------------------------------------------------------------
(* C22: the fullDiff argument of every stage_hunk, unstage_hunk and         *)
(* discard_hunk that is invoked is the text get_diff returns for the        *)
(* (filePath, staged) pair sent in the same request.                        *)

C22_FullDiffOfSentPair ==
    \A call \in inflight :
        call.cmd \in HunkCmds =>
            /\ call.filePath = TheFile
            /\ call.fullDiff = CurrentDiff(call.staged)

-----------------------------------------------------------------------------
(* C25: every hunk command invoked in a step is unstage_hunk when the       *)
(* selection is a staged file, and stage_hunk or discard_hunk when it is an *)
(* unstaged file; it is sent for the selected file and side. So             *)
(* discard_hunk is never invoked while the selection is a staged file.      *)

InvokedFollowsSelection ==
    \A call \in inflight' \ inflight :
        call.cmd \in HunkCmds =>
            /\ selectedStaged => call.cmd = "unstage_hunk"
            /\ ~selectedStaged => call.cmd \in {"stage_hunk", "discard_hunk"}
            /\ call.filePath = selectedFile /\ call.staged = selectedStaged
            /\ selectedFile' = selectedFile /\ selectedStaged' = selectedStaged

C25_CommandFollowsSelection == [][InvokedFollowsSelection]_vars

\* unstage_hunk has been invoked on a staged selection whose held diff is
\* the one of the unstaged side.
C25_Witness ==
    /\ selectedStaged
    /\ \E call \in inflight :
          /\ call.cmd = "unstage_hunk" /\ call.staged
          /\ call.fullDiff = CurrentDiff(FALSE)
          /\ call.fullDiff # CurrentDiff(TRUE)

-----------------------------------------------------------------------------
(* C23: in every reachable state of StageView, when no file is selected the *)
(* held diff is the empty string.                                           *)

C23_NoSelectionNoDiff == selectedFile = NoFile => diff = EmptyText

-----------------------------------------------------------------------------
(* C24: once the load made for the props requested last has stored its      *)
(* lists, no response of a load made earlier changes the lists; and once    *)
(* that load has finished, no response of an earlier load changes the       *)
(* selected commit or the commit reported to onCommitSelect.                *)

OlderReturns == \E call \in loads : call \notin loads' /\ call.seq < issued

NewestStored ==
    /\ commitLists = RepoLists(currentBranch)
    /\ \A call \in loads : call.seq = issued => call.cmd # "get_commits"

NewestFinished == NewestStored /\ \A call \in loads : call.seq # issued

OlderLoadOverwritesNothing ==
    OlderReturns =>
        /\ NewestStored => commitLists' = commitLists
        /\ NewestFinished => selectedCommit' = selectedCommit /\ reported' = reported

C24_OlderLoadNeverOverwrites == [][OlderLoadOverwritesNothing]_vars

-----------------------------------------------------------------------------
(* C29: in the rows DiffView shows for the held diff, the rows of every     *)
(* hunk that are not additions carry the old numbers os, os + 1, ... of the *)
(* hunk header in order, the rows that are not deletions the new numbers    *)
(* ns, ns + 1, ..., an addition row carries no old number and a deletion    *)
(* row no new number; the numbering starts again at every hunk header.      *)

\* Of the rows DiffView shows for the text, the row of line j.
RowOf(rows, text, j) == rows[j - StartIdx(text) + 1]

\* Lines of the hunk at h before line j that are not of the given kind.
Before(text, h, j, kind) ==
    Cardinality({k \in (h + 1)..(j - 1) : ~StartsWith(text[k], kind)})

HunkNumbered(rows, text, h) ==
    /\ RowOf(rows, text, h).oldNum = <<>> /\ RowOf(rows, text, h).newNum = <<>>
    /\ \A j \in (h + 1)..(EndIdx(text, h) - 1) :
          /\ RowOf(rows, text, j).oldNum =
                IF StartsWith(text[j], "+") THEN <<>>
                ELSE <<text[h].os + Before(text, h, j, "+")>>
          /\ RowOf(rows, text, j).newNum =
                IF StartsWith(text[j], "-") THEN <<>>
                ELSE <<text[h].ns + Before(text, h, j, "-")>>

C29_LineNumbersFollowHeader ==
    LET rows == RenderDiff(diff)
    IN \A h \in HunkRows(diff) : HunkNumbered(rows, diff, h)

\* The held diff has two hunks with additions and deletions, the second
\* with different old and new starts, and the numbers of its first row are
\* those of its header.
C29_Witness ==
    /\ Cardinality(HunkRows(diff)) = 2
    /\ \E h \in HunkRows(diff) :
          /\ h > StartIdx(diff)
          /\ diff[h].os # diff[h].ns
          /\ \E j \in (h + 1)..(Len(diff) - 1) : StartsWith(diff[j], "+")
          /\ \E j \in (h + 1)..(Len(diff) - 1) : StartsWith(diff[j], "-")
          /\ StartsWith(diff[h + 1], " ")
          /\ RowOf(RenderDiff(diff), diff, h + 1).oldNum = <<diff[h].os>>
          /\ RowOf(RenderDiff(diff), diff, h + 1).newNum = <<diff[h].ns>>

-----------------------------------------------------------------------------
(* Launcher (src/src/App.tsx): the recent repositories. An entry is         *)
(* modelled by its path; name and lastOpened are computed from the path and *)
(* the clock and are not read by the code.                                  *)

MaxRecent == 10

\* Paths the user opens, clones or deletes: the last of a full stored list,
\* and paths that were never stored.
ActedPaths == MaxRecent..(MaxRecent + NewPaths)

\* Lines 43-52: the list loadRecentRepos finds in localStorage on mount.
InitLauncher ==
    /\ GraphIdle /\ StageIdle /\ HistoryIdle /\ StatusIdle
    /\ \E n \in {0, MaxRecent} :
          /\ recentRepos = [i \in 1..n |-> i]
          /\ stored = IF n = 0 THEN NoStore ELSE [i \in 1..n |-> i]
    /\ pending = {}
    /\ lastAdded = NoPath

\* Lines 66, 88: list.filter((r) => r.path !== path)
WithoutPath(list, path) == SelectSeq(list, LAMBDA r : r # path)

\* Lines 64-67
UpdatedUncut(list, path) == <<path>> \o WithoutPath(list, path)

Updated(list, path) ==
    SubSeq(<<path>> \o WithoutPath(list, path), 1,
           MinOf({Len(<<path>> \o WithoutPath(list, path)), MaxRecent}))

\* Lines 54-70, called from a render in which recentRepos was `closure`.
AddToRecentRepos(path, closure) ==
    /\ recentRepos' = Updated(closure, path)
    /\ stored' = Updated(closure, path)
    /\ lastAdded' = path

\* Lines 80-84: a click on an entry of the list.
SelectRecentRepo ==
    \E i \in DOMAIN recentRepos :
        /\ recentRepos[i] \in ActedPaths
        /\ AddToRecentRepos(recentRepos[i], recentRepos)
        /\ UNCHANGED <<gvars, rvars, svars, hvars, pending, statusMessage, timers,
                       now, lastShown, fetches>>

\* Lines 86-91: the delete button of an entry.
DeleteRecentRepo ==
    \E i \in DOMAIN recentRepos :
        /\ recentRepos[i] \in ActedPaths
        /\ recentRepos' = WithoutPath(recentRepos, recentRepos[i])
        /\ stored' = WithoutPath(recentRepos, recentRepos[i])
        /\ UNCHANGED <<gvars, rvars, svars, hvars, pending, lastAdded, statusMessage,
                       timers, now, lastShown, fetches>>

\* An async function of the Launcher waiting at an await, with the
\* recentRepos of the render that called it.
Waiting(fn, path, closure) == [fn |-> fn, path |-> path, closure |-> closure]

\* Lines 93-99: openLocalRepo opens the folder dialog, one at a time.
OpenLocalRepo ==
    /\ \A call \in pending : call.fn # "openLocalRepo"
    /\ pending' = pending \cup {Waiting("openLocalRepo", NoPath, recentRepos)}
    /\ UNCHANGED <<gvars, rvars, svars, hvars, recentRepos, stored, lastAdded,
                   statusMessage, timers, now, lastShown, fetches>>

\* Lines 100-120: the dialog and is_git_repository have answered.
OpenLocalRepoReturn ==
    \E call \in pending, path \in ActedPaths \cup {NoPath}, isGitRepo \in BOOLEAN :
        /\ call.fn = "openLocalRepo"
        /\ pending' = pending \ {call}
        /\ IF path # NoPath /\ isGitRepo
           THEN AddToRecentRepos(path, call.closure)
           ELSE UNCHANGED <<recentRepos, stored, lastAdded>>
        /\ UNCHANGED <<gvars, rvars, svars, hvars, statusMessage, timers, now,
                       lastShown, fetches>>

\* Lines 122-130 and the button (disabled while isCloning): clone_repository
\* is invoked.
CloneRepository ==
    \E path \in ActedPaths :
        /\ \A call \in pending : call.fn # "cloneRepository"
        /\ pending' = pending \cup {Waiting("cloneRepository", path, recentRepos)}
        /\ UNCHANGED <<gvars, rvars, svars, hvars, recentRepos, stored, lastAdded,
                       statusMessage, timers, now, lastShown, fetches>>

\* Lines 130-145: clone_repository has answered.
CloneReturn ==
    \E call \in pending, ok \in BOOLEAN :
        /\ call.fn = "cloneRepository"
        /\ pending' = pending \ {call}
        /\ IF ok
           THEN AddToRecentRepos(call.path, call.closure)
           ELSE UNCHANGED <<recentRepos, stored, lastAdded>>
        /\ UNCHANGED <<gvars, rvars, svars, hvars, statusMessage, timers, now,
                       lastShown, fetches>>

NextLauncher ==
    \/ SelectRecentRepo
    \/ DeleteRecentRepo
    \/ OpenLocalRepo
    \/ OpenLocalRepoReturn
    \/ CloneRepository
    \/ CloneReturn

SpecLauncher == InitLauncher /\ [][NextLauncher]_vars

-----------------------------------------------------------------------------
(* C27: the recent list holds at most 10 entries, no two of them with the   *)
(* same path, the list in localStorage is the list in component state once  *)
(* one has been written, and the path added last is first.                  *)

NoPathTwice(list) == \A i, j \in DOMAIN list : list[i] = list[j] => i = j

RecentListKept ==
    /\ Len(recentRepos) <= MaxRecent
    /\ NoPathTwice(recentRepos)
    /\ stored # NoStore => stored = recentRepos

C27_RecentListLatestFirst ==
    /\ RecentListKept
    /\ lastAdded # NoPath => recentRepos # <<>> /\ recentRepos[1] = lastAdded

(* C27, amended: the same, with the path added last first unless it has     *)
(* been deleted from the list since.                                        *)
C27_RecentListLatestFirstUnlessDeleted ==
    /\ RecentListKept
    /\ lastAdded \in Range(recentRepos) => recentRepos[1] = lastAdded

\* A path that was never stored has been added to a full list: it is first
\* and the last entry of the list has been dropped.
C27_Witness ==
    /\ lastAdded > MaxRecent
    /\ Len(recentRepos) = MaxRecent
    /\ recentRepos[1] = lastAdded
    /\ MaxRecent \notin Range(recentRepos)
    /\ stored = recentRepos

-----------------------------------------------------------------------------
(* C28: in every step in which an addToRecentRepos runs after an await, the *)
(* new list is the latest list with the path put first: no path deleted     *)
(* in the meantime comes back and no path added in the meantime is lost.    *)

AddAfterAwait ==
    /\ \E call \in pending : call \notin pending'
    /\ recentRepos' # recentRepos

AddAppliesToLatest == AddAfterAwait => recentRepos' = Updated(recentRepos, lastAdded')

C28_AddAppliesToLatestList == [][AddAppliesToLatest]_vars

-----------------------------------------------------------------------------
(* RepoView status line (src/src/App.tsx): showStatus, its timers, and the  *)
(* fetch and pull handlers that call it.                                    *)

DefaultDuration == 3000

Ops == {"fetch", "pull"}

\* Lines 445, 461 and 449, 465: the two messages of a fetch or a pull.
Progress(op) == IF op = "fetch" THEN "Fetching from origin..." ELSE "Pulling from origin..."

Complete(op) == IF op = "fetch" THEN "Fetch from origin complete" ELSE "Pull from origin complete"

InitStatus ==
    /\ GraphIdle /\ StageIdle /\ HistoryIdle /\ LauncherIdle
    /\ statusMessage = ""
    /\ timers = {}
    /\ now = 0
    /\ lastShown = NoStatus
    /\ fetches = {}

\* Lines 310-315
ShowStatus(message, duration) ==
    /\ statusMessage' = message
    /\ timers' = IF duration > 0 THEN timers \cup {[due |-> now + duration]} ELSE timers
    /\ lastShown' = [msg |-> message, at |-> now, duration |-> duration]

\* Lines 443-446, 459-462: the handler up to its first await.
HandleFetch ==
    \E op \in Ops \ fetches :
        /\ ShowStatus(Progress(op), 0)
        /\ fetches' = fetches \cup {op}
        /\ UNCHANGED <<gvars, rvars, svars, hvars, recentRepos, stored, pending,
                       lastAdded, now>>

\* Lines 446-456, 462-472: the backend answers; the handler shows the
\* completion message, or clears the message before the error dialog.
FetchReturn ==
    \E op \in fetches, ok \in BOOLEAN :
        /\ ShowStatus(IF ok THEN Complete(op) ELSE "", DefaultDuration)
        /\ fetches' = fetches \ {op}
        /\ UNCHANGED <<gvars, rvars, svars, hvars, recentRepos, stored, pending,
                       lastAdded, now>>

\* Line 313: a timer callback runs, no earlier than it is due.
TimerFires ==
    \E t \in timers :
        /\ t.due <= now
        /\ statusMessage' = ""
        /\ timers' = timers \ {t}
        /\ UNCHANGED <<gvars, rvars, svars, hvars, recentRepos, stored, pending,
                       lastAdded, now, lastShown, fetches>>

\* Time passes once the timers that are due have run.
Tick ==
    /\ now + TickMs <= MaxTimeMs
    /\ \A t \in timers : t.due > now
    /\ now' = now + TickMs
    /\ UNCHANGED <<gvars, rvars, svars, hvars, recentRepos, stored, pending,
                   lastAdded, statusMessage, timers, lastShown, fetches>>

NextStatus ==
    \/ HandleFetch
    \/ FetchReturn
    \/ TimerFires
    \/ Tick

SpecStatus == InitStatus /\ [][NextStatus]_vars

-----------------------------------------------------------------------------
(* C26: the message of the last showStatus call is the one visible until    *)
(* its duration has passed, and for as long as it is not replaced when its  *)
(* duration is 0; no timer of an earlier call clears it.                    *)

C26_StatusStaysForDuration ==
    (lastShown.duration = 0 \/ now < lastShown.at + lastShown.duration)
        => statusMessage = lastShown.msg

-----------------------------------------------------------------------------
(* extractHunk and the engine together: the one hunk of a diff is applied   *)
(* to the index and then taken back with the reverse patch.                 *)

InitRound ==
    /\ GraphIdle
    /\ HistoryIdle
    /\ AppIdle
    /\ head \in AllContents /\ index = head /\ wt \in AllContents
    /\ unstagedFiles = <<TheFile>> /\ stagedFiles = <<>>
    /\ selectedFile = TheFile /\ selectedStaged = FALSE
    /\ diff = DiffText(index, wt)
    /\ inflight = {}
    /\ dialog = "none"
    /\ externals = 0
    /\ last = NoCall

\* The patch extractHunk makes of the diff's single hunk, cut out by DiffView,
\* is applied to the index: forward first, the reverse patch afterwards.
ApplyExtracted(reverse) ==
    \E h \in HunkRows(diff) :
        LET patch == ExtractHunk(diff, HunkHeaderAt(diff, h),
                                 HunkLinesAt(diff, h), reverse)
            res   == EngineApply(index, patch)
        IN /\ Cardinality(HunkRows(diff)) = 1
           /\ last.cmd = IF reverse THEN "apply" ELSE "none"
           /\ reverse => last.result = "success"
           /\ index' = res.content
           /\ last' = [NoCall EXCEPT
                          !.cmd = IF reverse THEN "apply_reverse" ELSE "apply",
                          !.result = IF res.ok THEN "success" ELSE "EngineApplyFailure",
                          !.fullDiff = diff,
                          !.header = HunkHeaderAt(diff, h),
                          !.hunkLines = HunkLinesAt(diff, h),
                          !.patch = patch,
                          !.head = head, !.index = index, !.wt = wt]
           /\ UNCHANGED <<avars, gvars, hvars, head, wt, unstagedFiles, stagedFiles, selectedFile,
                          selectedStaged, diff, inflight, dialog, externals>>

ApplyForward == ApplyExtracted(FALSE)
ApplyReverse == ApplyExtracted(TRUE)

NextRound == ApplyForward \/ ApplyReverse

SpecRound == InitRound /\ [][NextRound]_vars

-----------------------------------------------------------------------------
(* C7: for a diff of a single hunk, the patch extractHunk synthesizes for   *)
(* the hunk applies and changes the file, the reverse patch extractHunk     *)
(* synthesizes for the same hunk (additions and deletions swapped, counts   *)
(* recomputed) applies to the result, and the diff is then again the        *)
(* original diff text, line for line.                                       *)

C7_ExtractThenReverseRestoresDiff ==
    /\ last.cmd = "apply" =>
          /\ last.result = "success"
          /\ index # last.index
          /\ index = wt
    /\ last.cmd = "apply_reverse" =>
          /\ last.result = "success"
          /\ DiffText(index, wt) = diff
          /\ index = head

\* The reverse patch has been applied for a hunk that adds more lines than it
\* deletes and has context on both sides.
C7_Witness ==
    /\ last.cmd = "apply_reverse" /\ last.result = "success"
    /\ CountNew(BodyLinesOf(last.hunkLines)) > CountOld(BodyLinesOf(last.hunkLines))
    /\ CountOld(BodyLinesOf(last.hunkLines)) > 2
    /\ last.index # index
    /\ DiffText(index, wt) = diff

-----------------------------------------------------------------------------
(* C8: in every synthesized patch, forward or reverse, the old count of the *)
(* hunk header is the number of context and deletion lines of the patch's   *)
(* hunk body and the new count the number of its context and addition       *)
(* lines, whatever counts the supplied header carried and whatever body     *)
(* DiffView cut out of the diff text.                                       *)

PatchHunk(patch) == HunkAtRow(patch, MinOf(PatchRows(patch)))

LinesTagged(body, tags) == Cardinality({i \in DOMAIN body : body[i].tag \in tags})

C8_CountsMatchBody ==
    last.cmd \in {"extract", "extract_reverse"} =>
        /\ PatchRows(last.patch) # {}
        /\ PatchHunk(last.patch).header.oc =
              LinesTagged(PatchHunk(last.patch).body, {" ", "", "-"})
        /\ PatchHunk(last.patch).header.nc =
              LinesTagged(PatchHunk(last.patch).body, {" ", "", "+"})
        /\ Len(PatchHunk(last.patch).body) = Len(BodyLinesOf(last.hunkLines))

\* A reverse patch for a body that ends in the empty line left by split, cut
\* from under a header whose counts are both wrong.
C8_Witness ==
    /\ last.cmd = "extract_reverse"
    /\ last.hunkLines[Len(last.hunkLines)] = EmptyLine
    /\ Len(last.hunkLines) > 2
    /\ last.header.oc # PatchHunk(last.patch).header.nc
    /\ last.header.nc # PatchHunk(last.patch).header.oc
    /\ PatchHunk(last.patch).header.oc # PatchHunk(last.patch).header.nc

-----------------------------------------------------------------------------
(* C9: staging or unstaging one hunk from the diff as it stands succeeds    *)
(* and changes the index by that hunk's lines only: the lines the hunk      *)
(* deletes leave the index and the lines it adds enter it (the other way    *)
(* round for unstage), every other hunk of the file's diff is still there   *)
(* with the same body, and the working tree and the commit are untouched.   *)

HunkBodies(text) == {hk.body : hk \in ParseDiff(text)}

AdditionsOf(body) == {body[i].txt : i \in {j \in DOMAIN body : IsAddition(body[j])}}
DeletionsOf(body) == {body[i].txt : i \in {j \in DOMAIN body : IsDeletion(body[j])}}

C9_OnlySelectedHunkStaged ==
    (last.cmd \in {"stage_hunk", "unstage_hunk"} /\ last.fullDiff = last.current) =>
        LET body   == BodyLinesOf(last.hunkLines)
            unst   == last.cmd = "unstage_hunk"
            before == IF unst THEN DiffText(last.head, last.index)
                      ELSE DiffText(last.index, last.wt)
            after  == IF unst THEN DiffText(head, index) ELSE DiffText(index, wt)
            enter  == IF unst THEN DeletionsOf(body) ELSE AdditionsOf(body)
            leave  == IF unst THEN AdditionsOf(body) ELSE DeletionsOf(body)
        IN /\ last.result = "success"
           /\ wt = last.wt /\ head = last.head
           /\ Range(index) \ Range(last.index) = enter
           /\ Range(last.index) \ Range(index) = leave
           /\ body \in HunkBodies(before)
           /\ HunkBodies(after) = HunkBodies(before) \ {body}

\* The second of two unstaged hunks was staged; the first is still unstaged.
C9_Witness ==
    /\ last.cmd = "stage_hunk" /\ last.result = "success"
    /\ Cardinality(ParseDiff(last.fullDiff)) = 2
    /\ \E hk \in ParseDiff(last.fullDiff) : hk.header.os < last.header.os
    /\ Cardinality(ParseDiff(DiffText(index, wt))) = 1
    /\ \E hk \in ParseDiff(DiffText(index, wt)) : hk.header.os < last.header.os
    /\ wt = last.wt

-----------------------------------------------------------------------------
(* C10: DiscardHunk called with a hunk that is not a hunk of the file's     *)
(* current diff returns LocatorMismatch, which the handler reports, and     *)
(* leaves the working tree, the index and the commit as they were.          *)

StaleHunk ==
    [header |-> last.header, body |-> BodyLinesOf(last.hunkLines)]
        \notin ParseDiff(last.current)

C10_StaleDiscardRejected ==
    (last.cmd = "discard_hunk" /\ StaleHunk) =>
        /\ last.result = "LocatorMismatch"
        /\ dialog = "LocatorMismatch"
        /\ wt = last.wt /\ index = last.index /\ head = last.head

\* A discard of a hunk whose header moved although its body is still a hunk
\* of the current diff.
C10_Witness ==
    /\ last.cmd = "discard_hunk" /\ StaleHunk
    /\ BodyLinesOf(last.hunkLines) \in HunkBodies(last.current)
    /\ last.result = "LocatorMismatch"

=============================================================================
